---- MODULE Spec2Model ----
(***************************************************************************)
(* QuantC: browser-side sharded, encrypted file transfer.                  *)
(*                                                                         *)
(* The model follows the sharded iteration of the service:                 *)
(*   - the API server of src/unnamed/part_002 (lines 1-172): sign-upload,  *)
(*     finalize-upload, retrieve-meta;                                     *)
(*   - the browser client of src/unnamed/part_002 (lines 173-551), which   *)
(*     uploads every shard through uploadShardWithRetry ("part_002");      *)
(*   - the browser client of src/unnamed/part_004, which uploads every     *)
(*     shard through uploadShard, without retry ("part_004").              *)
(*                                                                         *)
(* Next to them stands the first iteration of src/server/server.js (lines   *)
(* 1-199, "server.js"), where the server itself encrypts the uploaded file *)
(* (POST /upload) and fetches and decrypts it (POST /retrieve).            *)
(*                                                                         *)
(* The object storage (Cloudinary) and the network are the environment:    *)
(* every request to them answers with one of the outcomes the client code  *)
(* distinguishes (network error, non-2xx, 2xx with or without secure_url). *)
(*                                                                         *)
(* Cryptography is symbolic.  A PBKDF2 key is the pair (password, salt);   *)
(* an AES-GCM ciphertext is one cell per plaintext byte plus a tag cell,   *)
(* every cell bound to the key and the nonce it was produced under.        *)
(* Byte strings are sequences; a hex string is a sequence of hex digits.   *)
(***************************************************************************)
EXTENDS Integers, Sequences, FiniteSets, TLC

(***************************************************************************)
(* Bounds of the model                                                     *)
(***************************************************************************)
\* plaintext shard size; the clients use 9 MiB, the model a few bytes
SHARD_SIZE == 2
\* longest file a user selects
MaxFileLen == 5
\* the clock stops after this many days
MaxNow == 3
\* number of values Math.random() takes when a retrieval code is drawn
NumCodes == 2

(***************************************************************************)
(* Program constants                                                       *)
(***************************************************************************)
\* uploadShardWithRetry(data, sigData, shardId, retries = 3)
RETRIES == 3
\* getRandomValues(new Uint8Array(12)); buffer.slice(0, 12)
IV_LEN == 12
\* getRandomValues(new Uint8Array(16))
SALT_LEN == 16
\* if (password.length < 6) return showToast(...)
MIN_PASSWORD_LEN == 6
\* Math.floor(100000 + Math.random() * 900000)
CODE_BASE == 100000
CODE_SPAN == 900000
\* expiresAt: Date.now() + 48 * 60 * 60 * 1000, in days
TTL_DAYS == 2
\* server.js: const IV_LENGTH = 16
IV_LENGTH == 16
\* server.js: const salt = crypto.randomBytes(64)
SALT_LENGTH == 64

(***************************************************************************)
(* Processes and input domains                                             *)
(***************************************************************************)
\* one invocation of the upload form's submit handler
Uploaders == {"u1"}
\* the upload requests that can be in progress at the same time
Concurrent == Uploaders \cup {"u2"}
\* one invocation of the retrieve form's submit handler
Retrievers == {"r1"}
\* the two sharded client scripts
ShardedClients == {"part_002", "part_004"}
\* the iterations of the service a deployment can run
Clients == ShardedClients \cup {"server.js"}

Passwords == {"pw", "hunter2", "correcthorse"}

\* Math.random() is n / RAND_DEN for some n in 0..RAND_DEN-1
RAND_DEN == 1000

\* the values of n drawn: the least ones and the greatest
RandomDraws == (0..(NumCodes - 2)) \cup {RAND_DEN - 1}

RECURSIVE String(_)
\* String(n) of a non-negative integer: its decimal digits
String(n) == IF n < 10 THEN <<n>> ELSE String(n \div 10) \o <<n % 10>>

\* mutant of generateCode: the code is not lifted to six digits
generateCode_Unlifted(n) == String((n * (CODE_BASE + CODE_SPAN)) \div RAND_DEN)

\* String(Math.floor(100000 + Math.random() * 900000))
generateCode(n) == String((CODE_BASE * RAND_DEN + n * CODE_SPAN) \div RAND_DEN)

\* the codes the generator can produce, and the codes a user types
Codes == { generateCode(n) : n \in RandomDraws }

\* fileInput.files[0] is undefined when nothing was selected
\* file names are sequences of characters
QUOTE == "\""
DashName == <<"a", "-", "b">>
QuoteName == <<"a", QUOTE, "b">>
Names == {DashName, QuoteName}

NoFile == [name |-> <<>>, type |-> "", data |-> <<-1>>]

\* byte strings 1,2,..,n (every position distinct) and one constant string
FileData ==
  { [i \in 1..n |-> i] : n \in 0..MaxFileLen }
    \cup { [i \in 1..(2 * SHARD_SIZE) |-> 7] }

Files == { [name |-> DashName, type |-> "text/plain", data |-> d] : d \in FileData }

\* crypto.getRandomValues: two of the possible 16-byte salts
Salts ==
  { [i \in 1..SALT_LEN |-> 10],
    [i \in 1..SALT_LEN |-> IF i = 1 THEN 255 ELSE 16] }

\* crypto.getRandomValues: two of the possible 12-byte nonces
IVs == { [i \in 1..IV_LEN |-> 0], [i \in 1..IV_LEN |-> 1] }

\* a locator that is not one: response.secure_url of a body without it
Undefined == 0
\* no shard index
NoShard == 0
\* no retrieval code
NoCode == <<>>

Min(a, b) == IF a < b THEN a ELSE b

(***************************************************************************)
(* Pure helpers of the clients                                             *)
(***************************************************************************)
\* Math.ceil(file.size / SHARD_SIZE)
TotalShards(size) == (size + SHARD_SIZE - 1) \div SHARD_SIZE

\* Math.min(start + SHARD_SIZE, file.size)
SliceEnd(start, size) == Min(start + SHARD_SIZE, size)

\* the for loop's increment: start += SHARD_SIZE
NextStart(start) == start + SHARD_SIZE

\* mutant of LoopContinues: the loop also runs for start = file.size
LoopContinues_Inclusive(start, size) == start <= size

\* the for loop's condition: start < file.size
LoopContinues(start, size) == start < size

\* Blob.slice(start, end): bytes start .. end-1, 0-based
BlobSlice(data, start, end) == SubSeq(data, start + 1, end)

\* ArrayBuffer.slice(begin): from begin to the end of the buffer
BufferFrom(buffer, begin) == SubSeq(buffer, begin + 1, Len(buffer))

\* ArrayBuffer.slice(0, end)
BufferUpTo(buffer, end) == SubSeq(buffer, 1, Min(end, Len(buffer)))

\* Number.prototype.toString(16) of one byte
ToString16(b) == IF b < 16 THEN <<b>> ELSE <<b \div 16, b % 16>>

\* mutant of PadStart2: the hex digits of a byte are not padded
PadStart2_Unpadded(s) == s

\* String.prototype.padStart(2, '0')
PadStart2(s) == IF Len(s) < 2 THEN <<0>> \o s ELSE s

RECURSIVE bytesToHex(_)
\* Array.from(bytes).map(b => b.toString(16).padStart(2, '0')).join('')
bytesToHex(bytes) ==
  IF bytes = <<>> THEN <<>>
  ELSE PadStart2(ToString16(Head(bytes))) \o bytesToHex(Tail(bytes))

RECURSIVE hexToBytes_Decimal(_)
\* a parse of the digit pairs in base 10: parseInt stops at the first
\* character that is no decimal digit, and NaN is stored as 0
hexToBytes_Decimal(hex) ==
  IF Len(hex) = 0 THEN <<>>
  ELSE IF Len(hex) = 1 THEN <<IF hex[1] > 9 THEN 0 ELSE hex[1]>>
  ELSE << IF hex[1] > 9 THEN 0
          ELSE IF hex[2] > 9 THEN hex[1]
          ELSE hex[1] * 10 + hex[2] >>
         \o hexToBytes_Decimal(SubSeq(hex, 3, Len(hex)))

RECURSIVE hexToBytes(_)
\* hex.match(/.{1,2}/g).map(byte => parseInt(byte, 16))
hexToBytes(hex) ==
  IF Len(hex) = 0 THEN <<>>
  ELSE IF Len(hex) = 1 THEN <<hex[1]>>
  ELSE <<hex[1] * 16 + hex[2]>> \o hexToBytes(SubSeq(hex, 3, Len(hex)))

\* PBKDF2(password, salt, 100000, SHA-256) -> AES-GCM 256 key
deriveKey(password, salt) == [pw |-> password, salt |-> salt]

\* crypto.subtle.encrypt({name: "AES-GCM", iv}, key, chunk):
\* one cell per plaintext byte, then the authentication tag
AesGcmEncrypt(key, iv, chunk) ==
  [j \in 1..Len(chunk) |-> [k |-> key, iv |-> iv, pos |-> j, b |-> <<chunk[j]>>]]
    \o << [k |-> key, iv |-> iv, pos |-> 0, b |-> chunk] >>

\* crypto.subtle.decrypt({name: "AES-GCM", iv}, key, data): the plaintext,
\* or a rejection when the tag does not authenticate data under (key, iv)
AesGcmDecrypt(key, iv, data) ==
  LET n == Len(data) - 1
      tag == data[n + 1]
      authentic ==
        /\ n >= 0
        /\ tag.pos = 0
        /\ tag.k = key
        /\ tag.iv = iv
        /\ Len(tag.b) = n
        /\ \A j \in 1..n :
             /\ data[j].pos = j
             /\ data[j].k = key
             /\ data[j].iv = iv
             /\ data[j].b = <<tag.b[j]>>
  IN IF authentic THEN [ok |-> TRUE, plain |-> tag.b]
     ELSE [ok |-> FALSE, plain |-> <<>>]

\* new Blob(decryptedShards): the concatenation of the parts in list order
RECURSIVE BlobOf(_)
BlobOf(shards) ==
  IF shards = <<>> THEN <<>> ELSE Head(shards) \o BlobOf(Tail(shards))

\* combinedBuffer: set(iv) at 0, set(encryptedChunk) at iv.length
CombineBuffer(iv, encryptedChunk) == iv \o encryptedChunk

\* the shard as uploaded: nonce || ciphertext || tag
EncryptShard(key, iv, chunk) == CombineBuffer(iv, AesGcmEncrypt(key, iv, chunk))

\* mutant of DecryptShard: the bytes are deciphered without checking the tag
DecryptShard_Unauthenticated(key, buffer) ==
  LET data == BufferFrom(buffer, IV_LEN)
  IN [ok |-> Len(data) >= 1,
      plain |-> BlobOf([j \in 1..(Len(data) - 1) |-> data[j].b])]

\* retrieval: iv = buffer.slice(0, 12); data = buffer.slice(12); decrypt
DecryptShard(key, buffer) ==
  AesGcmDecrypt(key, BufferUpTo(buffer, IV_LEN), BufferFrom(buffer, IV_LEN))

\* mutant of PushUrl: the locator is put in front of the list
PushUrl_Front(urls, url) == <<url>> \o urls

\* uploadedUrls.push(url)
PushUrl(urls, url) == Append(urls, url)

\* mutant of RetryAllowed: one retry more than the budget
RetryAllowed_Inclusive(retries) == retries >= 0

\* if (retries > 0) retry, else throw err
RetryAllowed(retries) == retries > 0

\* if (response && response.secure_url) in part_002; part_004 pushes
\* response.secure_url without looking at it
UrlAccepted(script, url) == script = "part_004" \/ url # Undefined

(***************************************************************************)
(* Server helpers                                                          *)
(***************************************************************************)
\* bcrypt.hash(password, 10)
BcryptHash(password) == [bcrypt |-> password]

\* mutant of BcryptCompare: any password passes
BcryptCompare_Any(password, hash) == TRUE

\* bcrypt.compare(password, hash)
BcryptCompare(password, hash) == hash.bcrypt = password

(***************************************************************************)
(* State                                                                   *)
(***************************************************************************)
VARIABLES
  client,  \* the client script the deployment serves
  up,      \* per upload-handler invocation: its local variables and position
  rt,      \* per retrieve-handler invocation: its local variables and position
  files,   \* the File collection of the database
  cloud,   \* the object storage: cloud[url] is the blob stored under url
  upload,  \* server.js, per POST /upload request: its locals and position
  retrieve, \* server.js, per POST /retrieve request: its locals and position
  disk,    \* server.js: the paths that exist in UPLOAD_DIR
  now,     \* Date.now(), in days
  sweep    \* per run of the cleanup code: its local variables and position

vars == <<client, up, rt, files, cloud, upload, retrieve, disk, now, sweep>>

NoToast == [type |-> "none", text |-> "", shard |-> NoShard]

Toast(type, text, shard) == [type |-> type, text |-> text, shard |-> shard]

NoBody == [password |-> "", originalName |-> <<>>, mimeType |-> "",
           parts |-> <<>>, salt |-> <<>>, iv |-> ""]

UpInit ==
  [pc |-> "idle", file |-> NoFile, password |-> "",
   fileSalt |-> <<>>, start |-> 0, currentShard |-> 0, uploadedUrls |-> <<>>,
   combinedBuffer |-> <<>>, retries |-> 0, attempts |-> 0,
   finalizeSent |-> FALSE, body |-> NoBody, code |-> NoCode,
   generatedCode |-> NoCode, toast |-> NoToast,
   \* history of the invocation, read by no action:
   slices |-> <<>>,         \* the (start, end) of every file.slice so far
   acked |-> 0,             \* shard uploads the storage answered with 2xx
   failedShard |-> NoShard, \* the shard whose upload failed for good
   lastError |-> "",        \* the message of the latest rejected attempt
   created |-> FALSE,       \* File.create of this invocation succeeded
   signSent |-> FALSE,      \* the request for a signature was issued
   duplicate |-> FALSE,     \* File.create was refused for a duplicate code
   collided |-> FALSE]      \* a round of the code loop drew a code in use

(***************************************************************************)
(* Upload: the submit handler of the upload form                           *)
(***************************************************************************)
\* mutant of Catch: after the error is shown the shard loop is resumed
Catch_Resume(st, text, shard) ==
  [st EXCEPT !.pc = "loop",
             !.toast = Toast("error", "Error: " \o text, shard)]

\* the handler's catch block: showToast("Error: " + error.message, "error")
Catch(st, text, shard) ==
  [st EXCEPT !.pc = "failed",
             !.toast = Toast("error", "Error: " \o text, shard)]

\* mutant of Submit: the request for a signature is sent before validation
Submit_Unvalidated(u, f, p) ==
  /\ client \in ShardedClients
  /\ up[u].pc = "idle"
  /\ up' = [up EXCEPT ![u].pc = "sign", ![u].signSent = TRUE,
              ![u].file = f, ![u].password = p]
  /\ UNCHANGED <<client, now, sweep, rt, files, cloud, upload, retrieve, disk>>

\* submit: validation, then the request for a signature
Submit(u, f, p) ==
  /\ client \in ShardedClients
  /\ up[u].pc = "idle"
  /\ IF f = NoFile
       THEN up' = [up EXCEPT ![u].pc = "rejected",
                     ![u].file = f, ![u].password = p,
                     ![u].toast = Toast("error", "Please select a file.", NoShard)]
       ELSE IF Len(p) < MIN_PASSWORD_LEN
         THEN up' = [up EXCEPT ![u].pc = "rejected",
                       ![u].file = f, ![u].password = p,
                       ![u].toast = Toast("error", "Password must be 6+ chars.", NoShard)]
         ELSE up' = [up EXCEPT ![u].pc = "sign", ![u].signSent = TRUE,
                       ![u].file = f, ![u].password = p]
  /\ UNCHANGED <<client, now, sweep, rt, files, cloud, upload, retrieve, disk>>

\* POST /sign-upload answered: salt, key, totalShards, empty uploadedUrls
Signed(u, salt) ==
  /\ up[u].pc = "sign"
  /\ up' = [up EXCEPT ![u].pc = "loop", ![u].fileSalt = salt,
              ![u].start = 0, ![u].currentShard = 0, ![u].uploadedUrls = <<>>]
  /\ UNCHANGED <<client, now, sweep, rt, files, cloud, upload, retrieve, disk>>

\* POST /sign-upload failed (fetch rejects, or the answer has no signature)
SignFailed(u) ==
  /\ up[u].pc = "sign"
  /\ up' = [up EXCEPT ![u] = Catch(@, "Server signature failed", NoShard)]
  /\ UNCHANGED <<client, now, sweep, rt, files, cloud, upload, retrieve, disk>>

\* a loop that starts the next shard without awaiting the upload before it
EncryptNextShard_Pipelined(u, iv) ==
  /\ up[u].pc \in {"loop", "upload"}
  /\ LET start == IF up[u].pc = "upload" THEN NextStart(up[u].start)
                  ELSE up[u].start
         end == SliceEnd(start, Len(up[u].file.data))
         chunk == BlobSlice(up[u].file.data, start, end)
         key == deriveKey(up[u].password, up[u].fileSalt)
     IN /\ LoopContinues(start, Len(up[u].file.data))
        /\ up' = [up EXCEPT ![u].pc = "upload",
                    ![u].start = start,
                    ![u].slices = Append(@, [start |-> start, end |-> end]),
                    ![u].currentShard = @ + 1,
                    ![u].combinedBuffer = EncryptShard(key, iv, chunk),
                    ![u].retries = RETRIES,
                    ![u].attempts = 1]
  /\ UNCHANGED <<client, now, sweep, rt, files, cloud, upload, retrieve, disk>>

\* one iteration of the shard loop up to the upload request
EncryptNextShard(u, iv) ==
  /\ up[u].pc = "loop"
  /\ LoopContinues(up[u].start, Len(up[u].file.data))
  /\ LET end == SliceEnd(up[u].start, Len(up[u].file.data))
         chunk == BlobSlice(up[u].file.data, up[u].start, end)
         key == deriveKey(up[u].password, up[u].fileSalt)
     IN up' = [up EXCEPT ![u].pc = "upload",
                 ![u].slices = Append(@, [start |-> up[u].start, end |-> end]),
                 ![u].currentShard = @ + 1,
                 ![u].combinedBuffer = EncryptShard(key, iv, chunk),
                 ![u].retries = RETRIES,
                 ![u].attempts = 1]
  /\ UNCHANGED <<client, now, sweep, rt, files, cloud, upload, retrieve, disk>>

\* POST /sign-upload: the folder among the parameters api_sign_request signs
SignedFolder == "quantc_shards"

\* formData.append("folder", ...): the folder the client script names in its
\* upload request
UploadFolder(script) ==
  IF script = "part_002" THEN "quantc_files" ELSE "quantc_shards"

\* what the storage keeps of an upload request that reached it: the blob
\* lies in the folder the request names, until it is deleted
StoredBlob(u) ==
  [bytes |-> up[u].combinedBuffer, by |-> u, shard |-> up[u].currentShard,
   folder |-> UploadFolder(client), present |-> TRUE]

\* uploadShardWithRetry / uploadShard resolved with a 2xx answer whose
\* secure_url is url: push it and go on, or throw "Shard N failed to return
\* a URL"
Acknowledged(st, script, url) ==
  IF UrlAccepted(script, url)
    THEN [st EXCEPT !.pc = "loop",
            !.uploadedUrls = PushUrl(@, url),
            !.start = NextStart(@),
            !.acked = @ + 1]
    ELSE Catch([st EXCEPT !.acked = @ + 1],
               "Shard failed to return a URL", st.currentShard)

\* mutant of Rejected: a shard that failed for good is skipped
Rejected_Skip(st, script, text) ==
  IF script = "part_002" /\ st.retries > 0
    THEN [st EXCEPT !.retries = @ - 1, !.attempts = @ + 1, !.lastError = text]
    ELSE [st EXCEPT !.pc = "loop", !.start = @ + SHARD_SIZE,
            !.failedShard = st.currentShard, !.lastError = text]

\* the upload request was rejected: uploadShardWithRetry tries again while
\* retries are left and then throws the last error; uploadShard throws at
\* once; the handler's catch block reports error.message
Rejected(st, script, text) ==
  IF script = "part_002" /\ RetryAllowed(st.retries)
    THEN [st EXCEPT !.retries = @ - 1, !.attempts = @ + 1, !.lastError = text]
    ELSE Catch([st EXCEPT !.failedShard = st.currentShard, !.lastError = text],
               text, NoShard)

\* the message of the Error the uploader rejects with: part_002 passes the
\* storage's error message (or statusText) on, part_004 a fixed text
ErrorText(script, kind) ==
  IF kind = "network" THEN "Network Error"
  ELSE IF script = "part_002" THEN "Invalid Signature"
  ELSE "Cloud upload failed"

\* storage answers 2xx with the secure_url of the stored shard
ShardStored(u) ==
  /\ up[u].pc = "upload"
  /\ cloud' = Append(cloud, StoredBlob(u))
  /\ up' = [up EXCEPT ![u] = Acknowledged(@, client, Len(cloud) + 1)]
  /\ UNCHANGED <<client, now, sweep, rt, files, upload, retrieve, disk>>

\* storage answers 2xx with a body that carries no secure_url
ShardAckWithoutUrl(u) ==
  /\ up[u].pc = "upload"
  /\ up' = [up EXCEPT ![u] = Acknowledged(@, client, Undefined)]
  /\ UNCHANGED <<client, now, sweep, rt, files, cloud, upload, retrieve, disk>>

\* the upload request fails: non-2xx status, or xhr.onerror
ShardRejected(u, kind) ==
  /\ up[u].pc = "upload"
  /\ up' = [up EXCEPT ![u] = Rejected(@, client, ErrorText(client, kind))]
  /\ UNCHANGED <<client, now, sweep, rt, files, cloud, upload, retrieve, disk>>

\* a handler whose locator list is one list shared by all invocations
SendFinalize_Shared(u) ==
  /\ up[u].pc = "loop"
  /\ ~ LoopContinues(up[u].start, Len(up[u].file.data))
  /\ up' = [up EXCEPT ![u].pc = "finalize", ![u].finalizeSent = TRUE,
              ![u].body = [password |-> up[u].password,
                           originalName |-> up[u].file.name,
                           mimeType |-> up[u].file.type,
                           parts |-> [k \in 1..Len(cloud) |-> k],
                           salt |-> bytesToHex(up[u].fileSalt),
                           iv |-> "sharded"]]
  /\ UNCHANGED <<client, now, sweep, rt, files, cloud, upload, retrieve, disk>>

\* the loop is over: POST /finalize-upload
SendFinalize(u) ==
  /\ up[u].pc = "loop"
  /\ ~ LoopContinues(up[u].start, Len(up[u].file.data))
  /\ up' = [up EXCEPT ![u].pc = "finalize", ![u].finalizeSent = TRUE,
              ![u].body = [password |-> up[u].password,
                           originalName |-> up[u].file.name,
                           mimeType |-> up[u].file.type,
                           parts |-> up[u].uploadedUrls,
                           salt |-> bytesToHex(up[u].fileSalt),
                           iv |-> "sharded"]]
  /\ UNCHANGED <<client, now, sweep, rt, files, cloud, upload, retrieve, disk>>

(***************************************************************************)
(* Server: POST /finalize-upload                                           *)
(***************************************************************************)
\* File.exists({ code })
FileExists(code) == \E f \in files : f.code = code

\* a generator that returns the same code in every round
FinalizeGenCode_Stuck(u, code) ==
  /\ up[u].pc = "finalize"
  /\ up' = [up EXCEPT ![u].code = generateCode(0),
              ![u].collided = @ \/ FileExists(generateCode(0)),
              ![u].pc = IF FileExists(generateCode(0)) THEN "finalize" ELSE "create"]
  /\ UNCHANGED <<client, now, sweep, rt, files, cloud, upload, retrieve, disk>>

\* one round of the while (exists) loop
FinalizeGenCode(u, code) ==
  /\ up[u].pc = "finalize"
  /\ up' = [up EXCEPT ![u].code = code,
              ![u].collided = @ \/ FileExists(code),
              ![u].pc = IF FileExists(code) THEN "finalize" ELSE "create"]
  /\ UNCHANGED <<client, now, sweep, rt, files, cloud, upload, retrieve, disk>>

\* a document that keeps the password as it came
NewFile_Plain(code, body) ==
  [code |-> code, passwordHash |-> BcryptHash(body.password),
   password |-> body.password,
   parts |-> body.parts, originalName |-> body.originalName,
   mimeType |-> body.mimeType, salt |-> body.salt, iv |-> body.iv,
   expiresAt |-> now + TTL_DAYS]

\* the document File.create writes
NewFile(code, body) ==
  [code |-> code, passwordHash |-> BcryptHash(body.password),
   parts |-> body.parts, originalName |-> body.originalName,
   mimeType |-> body.mimeType, salt |-> body.salt, iv |-> body.iv,
   expiresAt |-> now + TTL_DAYS]

\* mutant of FinalizeCreate: the answer is sent and the insert never happens
FinalizeCreate_AnswerOnly(u) ==
  /\ up[u].pc = "create"
  /\ files' = files
  /\ up' = [up EXCEPT ![u].pc = "done",
              ![u].generatedCode = up[u].code,
              ![u].toast = Toast("success", "Upload Complete!", NoShard)]
  /\ UNCHANGED <<client, now, sweep, rt, cloud, upload, retrieve, disk>>

\* File.create and the answer; the unique index on code rejects a duplicate
FinalizeCreate(u) ==
  /\ up[u].pc = "create"
  /\ IF FileExists(up[u].code)
       THEN /\ files' = files
            /\ up' = [up EXCEPT ![u].pc = "failed", ![u].duplicate = TRUE,
                        ![u].toast = Toast("error", "Save Failed", NoShard)]
       ELSE /\ files' = files \cup {NewFile(up[u].code, up[u].body)}
            /\ up' = [up EXCEPT ![u].pc = "done", ![u].created = TRUE,
                        ![u].generatedCode = up[u].code,
                        ![u].toast = Toast("success", "Upload Complete!", NoShard)]
  /\ UNCHANGED <<client, now, sweep, rt, cloud, upload, retrieve, disk>>

\* the database throws (answer 500), or the request never gets an answer
FinalizeFailed(u, answered) ==
  /\ up[u].pc \in {"finalize", "create"}
  /\ IF answered
       THEN up' = [up EXCEPT ![u].pc = "failed",
                     ![u].toast = Toast("error", "Save Failed", NoShard)]
       ELSE up' = [up EXCEPT ![u] = Catch(@, "Failed to fetch", NoShard)]
  /\ UNCHANGED <<client, now, sweep, rt, files, cloud, upload, retrieve, disk>>

(***************************************************************************)
(* Retrieval: the submit handler of the retrieve form                      *)
(***************************************************************************)
NoMeta == [success |-> FALSE, status |-> 0, message |-> "", parts |-> <<>>,
           originalName |-> <<>>, mimeType |-> "", salt |-> <<>>, iv |-> ""]

NoDownload == [clicked |-> FALSE, blob |-> <<>>, name |-> <<>>, type |-> ""]

RtInit ==
  [pc |-> "idle", code |-> NoCode, password |-> "",
   metaData |-> NoMeta, i |-> 0, decryptedShards |-> <<>>,
   download |-> NoDownload, toast |-> NoToast,
   \* history of the invocation, read by no action:
   found |-> <<>>,    \* the passwordHash of the record findOne returned
   fetched |-> <<>>,  \* the locators fetched so far, in fetch order
   decrypts |-> 0,    \* calls of crypto.subtle.decrypt so far
   lookupAt |-> 0,    \* the time of the findOne call
   foundExpiresAt |-> 0, \* the expiresAt of the record findOne returned
   tampered |-> FALSE,   \* a fetched body differed from the stored bytes
   undersized |-> FALSE] \* a fetched body was shorter than nonce and tag

\* submit: POST /retrieve-meta with the typed code and password
RetrieveSubmit(r, code, p) ==
  /\ client \in ShardedClients
  /\ rt[r].pc = "idle"
  /\ rt' = [rt EXCEPT ![r].pc = "meta",
              ![r].code = code, ![r].password = p]
  /\ UNCHANGED <<client, now, sweep, up, files, cloud, upload, retrieve, disk>>

\* File.findOne({ code }): the records with that code (none or one)
FindOne(code) == { f \in files : f.code = code }

\* mutant of RetrieveMeta: a wrong password is answered like an unknown code
RetrieveMeta_Uniform(found, password) ==
  IF found = {} \/ ~ BcryptCompare(password, (CHOOSE f \in found : TRUE).passwordHash)
    THEN [NoMeta EXCEPT !.status = 404, !.message = "File not found or expired"]
    ELSE LET file == CHOOSE f \in found : TRUE
         IN [success |-> TRUE, status |-> 200, message |-> "",
             parts |-> file.parts, originalName |-> file.originalName,
             mimeType |-> file.mimeType, salt |-> file.salt, iv |-> file.iv]

\* the answer of POST /retrieve-meta when findOne returned found
RetrieveMeta(found, password) ==
  IF found = {}
    THEN [NoMeta EXCEPT !.status = 404, !.message = "File not found or expired"]
    ELSE LET file == CHOOSE f \in found : TRUE
         IN IF ~ BcryptCompare(password, file.passwordHash)
              THEN [NoMeta EXCEPT !.status = 401, !.message = "Wrong password"]
              ELSE [success |-> TRUE, status |-> 200, message |-> "",
                    parts |-> file.parts, originalName |-> file.originalName,
                    mimeType |-> file.mimeType, salt |-> file.salt,
                    iv |-> file.iv]

\* the catch block of the retrieve handler: showToast(error.message, "error")
RetrieveCatch(st, text, shard) ==
  [st EXCEPT !.pc = "failed", !.toast = Toast("error", text, shard)]

\* new Blob(decryptedShards, {type}); a.download = originalName; a.click()
Assemble(st) ==
  [st EXCEPT !.pc = "done",
     !.download = [clicked |-> TRUE, blob |-> BlobOf(st.decryptedShards),
                   name |-> st.metaData.originalName,
                   type |-> st.metaData.mimeType],
     !.toast = Toast("success", "Download Complete!", NoShard)]

\* the server answers; the client throws on !success, else starts the loop
MetaAnswered(r) ==
  /\ rt[r].pc = "meta"
  /\ LET found == FindOne(rt[r].code)
         metaData == RetrieveMeta(found, rt[r].password)
         st == [rt[r] EXCEPT !.metaData = metaData, !.i = 0,
                  !.decryptedShards = <<>>,
                  !.lookupAt = now,
                  !.foundExpiresAt = IF found = {} THEN 0
                            ELSE (CHOOSE f \in found : TRUE).expiresAt,
                  !.found = IF found = {} THEN <<>>
                            ELSE <<(CHOOSE f \in found : TRUE).passwordHash>>]
     IN rt' = [rt EXCEPT ![r] =
                 IF ~ metaData.success
                   THEN RetrieveCatch(st, metaData.message, NoShard)
                   ELSE IF Len(metaData.parts) = 0
                     THEN Assemble(st)
                     ELSE [st EXCEPT !.pc = "fetch"]]
  /\ UNCHANGED <<client, now, sweep, up, files, cloud, upload, retrieve, disk>>

\* the server answers 500, or the request never gets an answer
MetaFailed(r, answered) ==
  /\ rt[r].pc = "meta"
  /\ rt' = [rt EXCEPT ![r] =
              IF answered
                THEN RetrieveCatch([rt[r] EXCEPT !.metaData.status = 500],
                                   "", NoShard)
                ELSE RetrieveCatch(rt[r], "Failed to fetch", NoShard)]
  /\ UNCHANGED <<client, now, sweep, up, files, cloud, upload, retrieve, disk>>

\* what a fetch of url can answer: no answer, a non-2xx status, 200 with a
\* zero-length body, 200 with the blob stored under url while it is there
FetchAnswers(url) ==
  { [kind |-> "network", body |-> <<>>],
    [kind |-> "notok", body |-> <<>>],
    [kind |-> "ok", body |-> <<>>] }
    \cup IF url \in 1..Len(cloud) /\ cloud[url].present
           THEN { [kind |-> "ok", body |-> cloud[url].bytes] }
           ELSE {}

\* byte k of a stored shard with one bit changed: a nonce byte takes another
\* value; a ciphertext byte deciphers to another value; a changed tag is the
\* tag of no message
FlipByte(bytes, k) ==
  [bytes EXCEPT ![k] =
     IF k <= IV_LEN THEN (@ + 1) % 256
     ELSE IF k < Len(bytes) THEN [@ EXCEPT !.b = <<(@[1] + 1) % 256>>]
     ELSE [@ EXCEPT !.pos = -1]]

\* what a fetch of url answers when one byte of the stored shard was changed
\* in the storage or on the way
TamperedAnswers(url) ==
  IF url \in 1..Len(cloud) /\ cloud[url].shard # NoShard /\ cloud[url].present
    THEN { [kind |-> "ok", body |-> FlipByte(cloud[url].bytes, k)] :
             k \in 1..Len(cloud[url].bytes) }
    ELSE {}

\* the cells the authentication tag takes in a stored shard
TAG_CELLS == 1

\* a body too short to hold the nonce and the tag
Undersized(buffer) == Len(buffer) < IV_LEN + TAG_CELLS

\* what a fetch of url answers when the body is cut off inside the nonce or
\* before the tag
TruncatedAnswers(url) ==
  IF url \in 1..Len(cloud) /\ cloud[url].shard # NoShard /\ cloud[url].present
    THEN { [kind |-> "ok", body |-> SubSeq(cloud[url].bytes, 1, k)] :
             k \in 1..(IV_LEN + TAG_CELLS - 1) }
    ELSE {}

\* part_002 checks buffer.byteLength === 0 before decrypting; part_004 does not
EmptyRejected(script, buffer) == script = "part_002" /\ Len(buffer) = 0

\* the decrypt call resolved: decryptedShards.push(decrypted); after the last
\* part the file is assembled and saved
Pushed(st, plain) ==
  LET pushed == [st EXCEPT !.i = @ + 1, !.decryptedShards = Append(@, plain)]
  IN IF pushed.i < Len(pushed.metaData.parts) THEN pushed ELSE Assemble(pushed)

\* mutant of DecryptFailed: a part that does not decrypt is left out
DecryptFailed_Skip(st) ==
  LET skipped == [st EXCEPT !.i = @ + 1]
  IN IF skipped.i < Len(skipped.metaData.parts)
       THEN skipped
       ELSE [skipped EXCEPT !.pc = "done",
               !.download = [clicked |-> TRUE, blob |-> <<>>,
                             name |-> st.metaData.originalName,
                             type |-> st.metaData.mimeType]]

\* the message thrown when crypto.subtle.decrypt rejects
DecryptErrorText(script) ==
  IF script = "part_002" THEN "Wrong Password or Data Corrupt"
  ELSE "Decryption failed. Wrong password?"

\* the decrypt call rejected: the catch around it throws the client's message
DecryptFailed(st) == RetrieveCatch(st, DecryptErrorText(client), NoShard)

\* the fetch rejected, or answered with a status that is not ok
DownloadFailed(st, script, answer) ==
  IF answer.kind = "network" THEN RetrieveCatch(st, "Failed to fetch", NoShard)
  ELSE IF script = "part_002"
    THEN RetrieveCatch(st, "Shard download failed", st.i + 1)
    ELSE RetrieveCatch(st, "Download failed", NoShard)

\* one iteration of the download loop: fetch parts[i], decrypt, push
FetchShard(r, answer) ==
  /\ rt[r].pc = "fetch"
  /\ LET url == rt[r].metaData.parts[rt[r].i + 1]
         key == deriveKey(rt[r].password, hexToBytes(rt[r].metaData.salt))
         seen == [rt[r] EXCEPT !.fetched = Append(@, url),
                     !.tampered = @ \/ answer \in TamperedAnswers(url),
                     !.undersized = answer.kind = "ok" /\ Undersized(answer.body)]
         tried == [seen EXCEPT !.decrypts = @ + 1]
         decrypted == DecryptShard(key, answer.body)
     IN /\ answer \in FetchAnswers(url) \cup TamperedAnswers(url)
                       \cup TruncatedAnswers(url)
        /\ rt' = [rt EXCEPT ![r] =
             IF answer.kind # "ok" THEN DownloadFailed(seen, client, answer)
             ELSE IF EmptyRejected(client, answer.body)
               THEN RetrieveCatch(seen, "Shard is empty", seen.i + 1)
             ELSE IF decrypted.ok THEN Pushed(tried, decrypted.plain)
             ELSE DecryptFailed(tried)]
  /\ UNCHANGED <<client, now, sweep, up, files, cloud, upload, retrieve, disk>>

(***************************************************************************)
(* server.js: POST /upload and POST /retrieve                              *)
(***************************************************************************)
\* crypto.randomBytes(64): two of the possible salts
RandomSalts == { [i \in 1..SALT_LENGTH |-> 3], [i \in 1..SALT_LENGTH |-> 4] }

\* crypto.randomBytes(IV_LENGTH): two of the possible initialization vectors
RandomIVs == { [i \in 1..IV_LENGTH |-> 5], [i \in 1..IV_LENGTH |-> 6] }

\* crypto.pbkdf2Sync(password, salt, 100000, 32, 'sha512')
pbkdf2Sync(password, salt) == [pw |-> password, salt |-> salt, digest |-> "sha512"]

\* encrypt(buffer, password): salt || iv || AES-256-CBC ciphertext
encrypt(buffer, password, salt, iv) ==
  salt \o iv \o << [k |-> pbkdf2Sync(password, salt), iv |-> iv, plain |-> buffer] >>

\* decrypt(buffer, password): the plaintext, or an exception (bad decrypt,
\* invalid IV length) when the bytes are not a ciphertext under that key
decrypt(buffer, password) ==
  LET salt == SubSeq(buffer, 1, Min(SALT_LENGTH, Len(buffer)))
      iv == SubSeq(buffer, SALT_LENGTH + 1, Min(SALT_LENGTH + IV_LENGTH, Len(buffer)))
      encrypted == SubSeq(buffer, SALT_LENGTH + IV_LENGTH + 1, Len(buffer))
      sound == /\ Len(encrypted) = 1
               /\ encrypted[1].k = pbkdf2Sync(password, salt)
               /\ encrypted[1].iv = iv
  IN IF sound THEN [ok |-> TRUE, plain |-> encrypted[1].plain]
     ELSE [ok |-> FALSE, plain |-> <<>>]

NoResponse == [status |-> 0, success |-> FALSE, message |-> "", code |-> NoCode,
               body |-> <<>>, contentDisposition |-> <<>>]

UploadInit ==
  [pc |-> "idle", file |-> NoFile, password |-> "", encryptedBuffer |-> <<>>,
   result |-> Undefined, code |-> NoCode, res |-> NoResponse,
   \* history of the request, read by no action:
   saved |-> FALSE,      \* newFile.save() of this request succeeded
   duplicate |-> FALSE,  \* newFile.save() was refused for a duplicate code
   collided |-> FALSE]   \* a round of the code loop drew a code in use

RetrieveInit ==
  [pc |-> "idle", code |-> NoCode, password |-> "", cloudinaryUrl |-> Undefined,
   originalName |-> <<>>, saved |-> <<>>, res |-> NoResponse,
   \* history of the request, read by no action:
   found |-> <<>>,   \* the passwordHash of the record findOne returned
   fetches |-> 0,    \* downloads from the storage so far
   decrypts |-> 0,   \* calls of decrypt so far
   lookupAt |-> 0,   \* the time of the findOne call
   foundExpiresAt |-> 0] \* the expiresAt of the record findOne returned

\* the temporary file multer wrote for the request, and its renamed copy
OriginalPath(u) == <<u, "orig">>
SafeBinPath(u) == <<u, "bin">>

\* the handler's catch block: remove leftover files, answer 500
UploadCatch(u, duplicate) ==
  /\ disk' = disk \ {OriginalPath(u), SafeBinPath(u)}
  /\ upload' = [upload EXCEPT ![u].pc = "failed", ![u].duplicate = duplicate,
                  ![u].res = [NoResponse EXCEPT !.status = 500,
                                !.message = "Upload failed"]]

\* POST /upload arrives: 400 without file or password; else encrypt the
\* temporary file, rename it to .bin and start the upload to the storage
PostUpload(u, f, p, salt, iv) ==
  /\ client = "server.js"
  /\ upload[u].pc = "idle"
  /\ IF f = NoFile \/ p = ""
       THEN /\ upload' = [upload EXCEPT ![u].pc = "rejected",
                            ![u].file = f, ![u].password = p,
                            ![u].res = [NoResponse EXCEPT !.status = 400,
                                          !.message = "Missing file or password"]]
            /\ disk' = IF f = NoFile THEN disk ELSE disk \cup {OriginalPath(u)}
       ELSE /\ upload' = [upload EXCEPT ![u].pc = "cloud",
                            ![u].file = f, ![u].password = p,
                            ![u].encryptedBuffer = encrypt(f.data, p, salt, iv)]
            /\ disk' = disk \cup {SafeBinPath(u)}
  /\ UNCHANGED <<client, now, sweep, up, rt, files, cloud, retrieve>>

\* cloudinary.uploader.upload resolved: the storage holds the .bin file;
\* remove it from disk, hash the password, enter the code loop
CloudUploaded(u) ==
  /\ upload[u].pc = "cloud"
  /\ cloud' = Append(cloud, [bytes |-> upload[u].encryptedBuffer, by |-> u,
                             shard |-> NoShard, folder |-> "quantc_encrypted",
                             present |-> TRUE])
  /\ upload' = [upload EXCEPT ![u].pc = "code", ![u].result = Len(cloud) + 1]
  /\ disk' = disk \ {SafeBinPath(u)}
  /\ UNCHANGED <<client, now, sweep, up, rt, files, retrieve>>

\* cloudinary.uploader.upload rejected
CloudRejected(u) ==
  /\ upload[u].pc = "cloud"
  /\ UploadCatch(u, FALSE)
  /\ UNCHANGED <<client, now, sweep, up, rt, files, cloud, retrieve>>

\* one round of the while (!isUnique) loop
GenerateCode(u, code) ==
  /\ upload[u].pc = "code"
  /\ upload' = [upload EXCEPT ![u].code = code,
                  ![u].collided = @ \/ FindOne(code) # {},
                  ![u].pc = IF FindOne(code) = {} THEN "save" ELSE "code"]
  /\ UNCHANGED <<client, now, sweep, up, rt, files, cloud, retrieve, disk>>

\* result.public_id: the folder and the name under which the storage keeps
\* blob url
PublicId(url) == [folder |-> cloud[url].folder, filename |-> url]

\* the document newFile.save() writes
NewLegacyFile(st) ==
  [code |-> st.code, passwordHash |-> BcryptHash(st.password),
   cloudinaryUrl |-> st.result, cloudinaryPublicId |-> PublicId(st.result),
   originalName |-> st.file.name, expiresAt |-> now + TTL_DAYS]

\* newFile.save() and the answer; the unique index rejects a duplicate code
SaveFile(u) ==
  /\ upload[u].pc = "save"
  /\ IF FindOne(upload[u].code) # {}
       THEN /\ files' = files
            /\ UploadCatch(u, TRUE)
       ELSE /\ files' = files \cup {NewLegacyFile(upload[u])}
            /\ disk' = disk
            /\ upload' = [upload EXCEPT ![u].pc = "done", ![u].saved = TRUE,
                            ![u].res = [NoResponse EXCEPT !.status = 200,
                                          !.success = TRUE,
                                          !.code = upload[u].code]]
  /\ UNCHANGED <<client, now, sweep, up, rt, cloud, retrieve>>

\* the database throws in findOne or save
SaveFailed(u) ==
  /\ upload[u].pc \in {"code", "save"}
  /\ UploadCatch(u, FALSE)
  /\ UNCHANGED <<client, now, sweep, up, rt, files, cloud, retrieve>>

\* POST /retrieve arrives: File.findOne is awaited
PostRetrieve(r, code, p) ==
  /\ client = "server.js"
  /\ retrieve[r].pc = "idle"
  /\ retrieve' = [retrieve EXCEPT ![r].pc = "find", ![r].code = code,
                    ![r].password = p]
  /\ UNCHANGED <<client, now, sweep, up, rt, files, cloud, upload, disk>>

\* findOne and bcrypt.compare resolved: 404, 401, or the download starts
GateOf(st, found) ==
  IF found = {}
    THEN [st EXCEPT !.pc = "failed", !.lookupAt = now,
            !.res = [NoResponse EXCEPT !.status = 404, !.message = "File not found"]]
    ELSE LET fileRecord == CHOOSE f \in found : TRUE
             seen == [st EXCEPT !.found = <<fileRecord.passwordHash>>,
                       !.lookupAt = now,
                       !.foundExpiresAt = fileRecord.expiresAt]
         IN IF ~ BcryptCompare(st.password, fileRecord.passwordHash)
              THEN [seen EXCEPT !.pc = "failed",
                      !.res = [NoResponse EXCEPT !.status = 401,
                                 !.message = "Incorrect password"]]
              ELSE [seen EXCEPT !.pc = "download",
                      !.cloudinaryUrl = fileRecord.cloudinaryUrl,
                      !.originalName = fileRecord.originalName]

Found(r) ==
  /\ retrieve[r].pc = "find"
  /\ retrieve' = [retrieve EXCEPT ![r] = GateOf(@, FindOne(retrieve[r].code))]
  /\ UNCHANGED <<client, now, sweep, up, rt, files, cloud, upload, disk>>

\* the catch block of POST /retrieve: answer 500
RetrieveFailed(st) ==
  [st EXCEPT !.pc = "failed",
     !.res = [NoResponse EXCEPT !.status = 500, !.message = "Retrieval failed"]]

\* res.setHeader('Content-Disposition', `attachment; filename="${name}"`)
ContentDisposition(name) == <<"attachment; filename=", QUOTE>> \o name \o <<QUOTE>>

\* the characters of s in front of its first quote
RECURSIVE UpToQuote(_)
UpToQuote(s) ==
  IF s = <<>> \/ Head(s) = QUOTE THEN <<>> ELSE <<Head(s)>> \o UpToQuote(Tail(s))

\* client/script.js: the name under which the answer is saved.  The header
\* is null when the browser does not expose it to the script; otherwise
\* /filename="([^"]*)"/ captures the characters up to the next quote
DownloadName(header, exposed) ==
  LET matches == UpToQuote(SubSeq(header, 3, Len(header)))
  IN IF exposed /\ header # <<>> /\ matches # <<>> THEN matches
     ELSE <<"downloaded_file">>

\* the download resolved or rejected; on an ok answer the body is decrypted
\* and sent with the original file name, and the client saves it; exposed is
\* whether the browser lets the script read the Content-Disposition header
\* (same origin; the cors options name no exposedHeaders)
Downloaded(r, answer, exposed) ==
  /\ retrieve[r].pc = "download"
  /\ answer \in FetchAnswers(retrieve[r].cloudinaryUrl)
  /\ LET seen == [retrieve[r] EXCEPT !.fetches = @ + 1]
         tried == [seen EXCEPT !.decrypts = @ + 1]
         decryptedBuffer == decrypt(answer.body, seen.password)
     IN retrieve' = [retrieve EXCEPT ![r] =
          IF answer.kind # "ok" THEN RetrieveFailed(seen)
          ELSE IF ~ decryptedBuffer.ok THEN RetrieveFailed(tried)
          ELSE [tried EXCEPT !.pc = "done",
                  !.res = [NoResponse EXCEPT !.status = 200, !.success = TRUE,
                             !.body = decryptedBuffer.plain,
                             !.contentDisposition =
                                ContentDisposition(seen.originalName)],
                  !.saved = DownloadName(ContentDisposition(seen.originalName),
                                         exposed)]]
  /\ UNCHANGED <<client, now, sweep, up, rt, files, cloud, upload, disk>>

\* the database throws in findOne
FindFailed(r) ==
  /\ retrieve[r].pc = "find"
  /\ retrieve' = [retrieve EXCEPT ![r] = RetrieveFailed(@)]
  /\ UNCHANGED <<client, now, sweep, up, rt, files, cloud, upload, disk>>

(***************************************************************************)
(* Cleanup of expired files                                                *)
(***************************************************************************)
\* the runs of the cleanup code: two requests to /cleanup, or two firings
\* of the timer
Sweepers == {"s1", "s2"}

\* process.env.CLOUDINARY_API_KEY, and the keys a request can carry
CLOUDINARY_API_KEY == "api_key"
Keys == {CLOUDINARY_API_KEY, "guess"}

\* the cleanup code of the server: GET /cleanup of part_002 for the sharded
\* clients, and for server.js the timer callbacks of its iterations
Jobs(script) ==
  IF script \in ShardedClients THEN {"/cleanup"}
  ELSE {"cleanup188", "deleteExpiredFiles", "cleanup613", "part_001"}

NoAnswer == [status |-> 0, body |-> ""]

\* history: tried, the positions of the records the run started to delete;
\* threw, the positions at which a deletion threw; refused, the positions
\* at which the storage or the database did not carry a deletion out; key,
\* the key of the request; at, the time at which the run found its expired
\* records; requested, the
\* positions whose storage deletion completed without error; removed, the
\* positions whose deleteOne resolved
SweepInit ==
  [pc |-> "idle", job |-> "", expiredFiles |-> <<>>, i |-> 0, res |-> NoAnswer,
   tried |-> {}, threw |-> {}, refused |-> {}, key |-> "", at |-> 0,
   requested |-> {}, removed |-> {}]

\* the documents File.find returns, in the order of the collection
RECURSIVE FindAll(_)
FindAll(S) ==
  IF S = {} THEN <<>>
  ELSE LET f == CHOOSE f \in S : TRUE IN <<f>> \o FindAll(S \ {f})

\* a query that also returns the records that expire at this moment ($lte)
FindExpired_Inclusive == FindAll({ f \in files : f.expiresAt <= now })

\* File.find({ expiresAt: { $lt: now } })
FindExpired == FindAll({ f \in files : f.expiresAt < now })

\* the public ids the job asks the storage to delete for file: part_002
\* puts the last path segment of each locator under quantc_shards/, the
\* timer callbacks pass the public id the record holds
PublicIds(job, file) ==
  IF job = "/cleanup"
    THEN { [folder |-> "quantc_shards", filename |-> file.parts[i]] :
             i \in 1..Len(file.parts) }
    ELSE { file.cloudinaryPublicId }

\* the storage after delete_resources / destroy / unlinkSync of ids: the
\* blobs with these public ids are gone, an id that names no blob changes
\* nothing
Destroyed(ids) ==
  [k \in 1..Len(cloud) |->
     IF PublicId(k) \in ids THEN [cloud[k] EXCEPT !.present = FALSE]
     ELSE cloud[k]]

\* the job goes on with the next record of its list, or ends: part_002
\* answers the number of expired files
NextRecord(sw) ==
  IF sw.i < Len(sw.expiredFiles)
    THEN [sw EXCEPT !.pc = "destroy", !.i = @ + 1]
    ELSE [sw EXCEPT !.pc = "done",
                    !.res = IF sw.job = "/cleanup"
                              THEN [status |-> 200, body |-> "deleted"]
                              ELSE NoAnswer]

\* an exception while a record is deleted: cleanup188 and deleteExpiredFiles
\* catch it inside the loop and go on, part_002 catches it around the loop
\* and answers 500, cleanup613 catches it around the loop and ends, part_001
\* does not catch it
Thrown(sw) ==
  LET st == [sw EXCEPT !.threw = @ \cup {sw.i}] IN
  IF sw.job \in {"cleanup188", "deleteExpiredFiles"} THEN NextRecord(st)
  ELSE [st EXCEPT !.pc = "failed",
                  !.res = IF sw.job = "/cleanup"
                            THEN [status |-> 500, body |-> "error"]
                            ELSE NoAnswer]

\* a /cleanup that does not look at the key
Cleanup_Open(s, job, key, found) ==
  /\ sweep[s].pc = "idle"
  /\ job \in Jobs(client)
  /\ sweep' = [sweep EXCEPT ![s] =
       LET sw == [@ EXCEPT !.job = job,
                           !.key = IF job = "/cleanup" THEN key ELSE ""] IN
       IF ~found
         THEN [sw EXCEPT !.pc = "failed",
                         !.res = IF job = "/cleanup"
                                   THEN [status |-> 500, body |-> "error"]
                                   ELSE NoAnswer]
       ELSE IF FindExpired = <<>>
         THEN [sw EXCEPT !.pc = "done",
                         !.res = IF job = "/cleanup"
                                   THEN [status |-> 200,
                                         body |-> "No expired files."]
                                   ELSE NoAnswer]
       ELSE [sw EXCEPT !.pc = "destroy", !.expiredFiles = FindExpired,
                       !.i = 1, !.at = now]]
  /\ UNCHANGED <<client, now, up, rt, files, cloud, upload, retrieve, disk>>

\* GET /cleanup?key=..., or the timer fires: check the key, find the expired
\* records; found is whether File.find resolved
Cleanup(s, job, key, found) ==
  /\ sweep[s].pc = "idle"
  /\ job \in Jobs(client)
  /\ sweep' = [sweep EXCEPT ![s] =
       LET sw == [@ EXCEPT !.job = job,
                           !.key = IF job = "/cleanup" THEN key ELSE ""] IN
       IF job = "/cleanup" /\ key # CLOUDINARY_API_KEY
         THEN [sw EXCEPT !.pc = "done",
                         !.res = [status |-> 403, body |-> "Unauthorized"]]
       ELSE IF ~found
         THEN [sw EXCEPT !.pc = "failed",
                         !.res = IF job = "/cleanup"
                                   THEN [status |-> 500, body |-> "error"]
                                   ELSE NoAnswer]
       ELSE IF FindExpired = <<>>
         THEN [sw EXCEPT !.pc = "done",
                         !.res = IF job = "/cleanup"
                                   THEN [status |-> 200,
                                         body |-> "No expired files."]
                                   ELSE NoAnswer]
       ELSE [sw EXCEPT !.pc = "destroy", !.expiredFiles = FindExpired,
                       !.i = 1, !.at = now]]
  /\ UNCHANGED <<client, now, up, rt, files, cloud, upload, retrieve, disk>>

\* a job that goes on to delete the record when the storage deletion threw
DestroyShards_Swallow(s, deleted) ==
  /\ sweep[s].pc = "destroy"
  /\ LET sw == [sweep[s] EXCEPT !.tried = @ \cup {sweep[s].i}]
         ids == PublicIds(sw.job, sw.expiredFiles[sw.i])
     IN
     IF deleted
       THEN /\ sweep' = [sweep EXCEPT ![s] =
                            [sw EXCEPT !.pc = "delete",
                                       !.requested = @ \cup {sw.i}]]
            /\ cloud' = Destroyed(ids)
       ELSE /\ sweep' = [sweep EXCEPT ![s] =
                            [sw EXCEPT !.pc = "delete",
                                       !.refused = @ \cup {sw.i}]]
            /\ UNCHANGED cloud
  /\ UNCHANGED <<client, now, up, rt, files, upload, retrieve, disk>>

\* the job deletes the blobs of the record it is at; deleted is whether the
\* storage carried the deletion out.  part_002 makes no call for a record
\* without parts and throws on a part that is no string; deleteExpiredFiles
\* makes no call for a file that is not there
DestroyShards(s, deleted) ==
  /\ sweep[s].pc = "destroy"
  /\ LET sw == [sweep[s] EXCEPT !.tried = @ \cup {sweep[s].i}]
         file == sw.expiredFiles[sw.i]
         ids == PublicIds(sw.job, file)
         nocall ==
           \/ sw.job = "/cleanup" /\ file.parts = <<>>
           \/ /\ sw.job = "deleteExpiredFiles"
              /\ \A k \in 1..Len(cloud) : PublicId(k) \in ids => ~cloud[k].present
         nostring ==
           /\ sw.job = "/cleanup"
           /\ \E i \in 1..Len(file.parts) : file.parts[i] = Undefined
     IN
     IF nostring
       THEN /\ ~deleted
            /\ sweep' = [sweep EXCEPT ![s] = Thrown(sw)]
            /\ UNCHANGED cloud
     ELSE IF nocall
       THEN /\ deleted
            /\ sweep' = [sweep EXCEPT ![s] =
                            [sw EXCEPT !.pc = "delete",
                                       !.requested = @ \cup {sw.i}]]
            /\ UNCHANGED cloud
     ELSE IF deleted
       THEN /\ sweep' = [sweep EXCEPT ![s] =
                            [sw EXCEPT !.pc = "delete",
                                       !.requested = @ \cup {sw.i}]]
            /\ cloud' = Destroyed(ids)
     ELSE /\ sweep' = [sweep EXCEPT ![s] =
                          Thrown([sw EXCEPT !.refused = @ \cup {sw.i}])]
          /\ UNCHANGED cloud
  /\ UNCHANGED <<client, now, up, rt, files, upload, retrieve, disk>>

\* a deletion that throws when the record is gone already
DeleteRecord_Strict(s, deleted) ==
  /\ sweep[s].pc = "delete"
  /\ LET sw == sweep[s]
         file == sw.expiredFiles[sw.i]
     IN
     IF deleted /\ file \in files
       THEN /\ files' = files \ {file}
            /\ sweep' = [sweep EXCEPT ![s] =
                            NextRecord([sw EXCEPT !.removed = @ \cup {sw.i}])]
       ELSE /\ sweep' = [sweep EXCEPT ![s] =
                            Thrown(IF deleted THEN sw
                                   ELSE [sw EXCEPT !.refused = @ \cup {sw.i}])]
            /\ UNCHANGED files
  /\ UNCHANGED <<client, now, up, rt, cloud, upload, retrieve, disk>>

\* File.deleteOne({ _id: file._id }); deleted is whether the database
\* carried it out.  A record that is gone already deletes nothing
DeleteRecord(s, deleted) ==
  /\ sweep[s].pc = "delete"
  /\ LET sw == sweep[s]
         file == sw.expiredFiles[sw.i]
     IN
     IF deleted
       THEN /\ files' = files \ {file}
            /\ sweep' = [sweep EXCEPT ![s] =
                            NextRecord([sw EXCEPT !.removed = @ \cup {sw.i}])]
       ELSE /\ sweep' = [sweep EXCEPT ![s] =
                            Thrown([sw EXCEPT !.refused = @ \cup {sw.i}])]
            /\ UNCHANGED files
  /\ UNCHANGED <<client, now, up, rt, cloud, upload, retrieve, disk>>

(***************************************************************************)
(* Specification                                                           *)
(***************************************************************************)
Init ==
  /\ client \in Clients
  /\ up = [u \in Concurrent |-> UpInit]
  /\ rt = [r \in Retrievers |-> RtInit]
  /\ files = {}
  /\ cloud = <<>>
  /\ upload = [u \in Concurrent |-> UploadInit]
  /\ retrieve = [r \in Retrievers |-> RetrieveInit]
  /\ disk = {}
  /\ now = 0
  /\ sweep = [s \in Sweepers |-> SweepInit]

Next ==
  \/ \E u \in Uploaders, f \in Files \cup {NoFile}, p \in Passwords :
       Submit(u, f, p)
  \/ \E u \in Uploaders, salt \in Salts : Signed(u, salt)
  \/ \E u \in Uploaders : SignFailed(u)
  \/ \E u \in Uploaders, iv \in IVs : EncryptNextShard(u, iv)
  \/ \E u \in Uploaders : ShardStored(u)
  \/ \E u \in Uploaders : ShardAckWithoutUrl(u)
  \/ \E u \in Uploaders, kind \in {"status", "network"} : ShardRejected(u, kind)
  \/ \E u \in Uploaders : SendFinalize(u)
  \/ \E u \in Uploaders, code \in Codes : FinalizeGenCode(u, code)
  \/ \E u \in Uploaders : FinalizeCreate(u)
  \/ \E u \in Uploaders, answered \in BOOLEAN : FinalizeFailed(u, answered)
  \/ \E r \in Retrievers, code \in Codes, p \in Passwords :
       RetrieveSubmit(r, code, p)
  \/ \E r \in Retrievers : MetaAnswered(r)
  \/ \E r \in Retrievers, answered \in BOOLEAN : MetaFailed(r, answered)
  \/ \E r \in Retrievers,
        answer \in FetchAnswers(0)
                     \cup UNION { FetchAnswers(k) \cup TamperedAnswers(k)
                                    \cup TruncatedAnswers(k) :
                                  k \in 1..Len(cloud) } :
       FetchShard(r, answer)
  \/ \E u \in Uploaders, f \in Files \cup {NoFile}, p \in Passwords \cup {""},
        salt \in RandomSalts, iv \in RandomIVs :
       PostUpload(u, f, p, salt, iv)
  \/ \E u \in Uploaders : CloudUploaded(u)
  \/ \E u \in Uploaders : CloudRejected(u)
  \/ \E u \in Uploaders, code \in Codes : GenerateCode(u, code)
  \/ \E u \in Uploaders : SaveFile(u)
  \/ \E u \in Uploaders : SaveFailed(u)
  \/ \E r \in Retrievers, code \in Codes, p \in Passwords : PostRetrieve(r, code, p)
  \/ \E r \in Retrievers : Found(r)
  \/ \E r \in Retrievers : FindFailed(r)
  \/ \E r \in Retrievers, answer \in FetchAnswers(0) \cup UNION { FetchAnswers(k) : k \in 1..Len(cloud) } :
       \E exposed \in BOOLEAN : Downloaded(r, answer, exposed)

Spec == Init /\ [][Next]_vars

\* a day passes
Tick ==
  /\ now < MaxNow
  /\ now' = now + 1
  /\ UNCHANGED <<client, up, rt, files, cloud, upload, retrieve, disk, sweep>>

\* the file and the passwords of the runs in which time passes or uploads
\* overlap: a file of two shards, its password and another one
TwoShardFiles == { f \in Files : Len(f.data) = SHARD_SIZE + 1 }
UploadPasswords == {"hunter2"}
RetrievePasswords == {"hunter2", "correcthorse"}

NextExpiry ==
  \/ \E u \in Uploaders, f \in TwoShardFiles, p \in UploadPasswords :
       Submit(u, f, p)
  \/ \E u \in Uploaders, salt \in Salts : Signed(u, salt)
  \/ \E u \in Uploaders, iv \in IVs : EncryptNextShard(u, iv)
  \/ \E u \in Uploaders : ShardStored(u)
  \/ \E u \in Uploaders : SendFinalize(u)
  \/ \E u \in Uploaders, code \in Codes : FinalizeGenCode(u, code)
  \/ \E u \in Uploaders : FinalizeCreate(u)
  \/ \E r \in Retrievers, code \in Codes, p \in RetrievePasswords :
       RetrieveSubmit(r, code, p)
  \/ \E r \in Retrievers : MetaAnswered(r)
  \/ \E r \in Retrievers, answer \in UNION { FetchAnswers(k) : k \in 1..Len(cloud) } :
       FetchShard(r, answer)
  \/ \E u \in Uploaders, f \in TwoShardFiles, p \in UploadPasswords,
        salt \in RandomSalts, iv \in RandomIVs :
       PostUpload(u, f, p, salt, iv)
  \/ \E u \in Uploaders : CloudUploaded(u)
  \/ \E u \in Uploaders, code \in Codes : GenerateCode(u, code)
  \/ \E u \in Uploaders : SaveFile(u)
  \/ \E r \in Retrievers, code \in Codes, p \in RetrievePasswords :
       PostRetrieve(r, code, p)
  \/ \E r \in Retrievers : Found(r)
  \/ \E r \in Retrievers, answer \in UNION { FetchAnswers(k) : k \in 1..Len(cloud) } :
       \E exposed \in BOOLEAN : Downloaded(r, answer, exposed)
  \/ Tick

\* the service while time passes
SpecExpiry == Init /\ [][NextExpiry]_vars

NextLoad ==
  \/ \E u \in Concurrent, f \in TwoShardFiles, p \in UploadPasswords :
       Submit(u, f, p)
  \/ \E u \in Concurrent, salt \in Salts : Signed(u, salt)
  \/ \E u \in Concurrent, iv \in IVs : EncryptNextShard(u, iv)
  \/ \E u \in Concurrent : ShardStored(u)
  \/ \E u \in Concurrent : SendFinalize(u)
  \/ \E u \in Concurrent, code \in Codes : FinalizeGenCode(u, code)
  \/ \E u \in Concurrent : FinalizeCreate(u)
  \/ \E u \in Concurrent, f \in TwoShardFiles, p \in UploadPasswords,
        salt \in RandomSalts, iv \in RandomIVs :
       PostUpload(u, f, p, salt, iv)
  \/ \E u \in Concurrent : CloudUploaded(u)
  \/ \E u \in Concurrent, code \in Codes : GenerateCode(u, code)
  \/ \E u \in Concurrent : SaveFile(u)

\* two uploads in progress at the same time, storage and database answering
SpecLoad == Init /\ [][NextLoad]_vars

\* Math.random() is fair: a value a round of the code loop can draw is not
\* passed over for ever
FairDraws ==
  \A u \in Concurrent, code \in Codes :
    /\ WF_vars(FinalizeGenCode(u, code))
    /\ WF_vars(GenerateCode(u, code))

\* two uploads at the same time, with a fair random number generator
SpecCodes == Init /\ [][NextLoad]_vars /\ FairDraws

\* one salt and one nonce for the runs in which the content does not matter
OneSalt == { CHOOSE salt \in Salts : TRUE }
OneIV == { CHOOSE iv \in IVs : TRUE }
OneRandomSalt == { CHOOSE salt \in RandomSalts : TRUE }
OneRandomIV == { CHOOSE iv \in RandomIVs : TRUE }

NextSweep ==
  \/ \E u \in Concurrent, f \in TwoShardFiles, p \in UploadPasswords :
       Submit(u, f, p)
  \/ \E u \in Concurrent, salt \in OneSalt : Signed(u, salt)
  \/ \E u \in Concurrent, iv \in OneIV : EncryptNextShard(u, iv)
  \/ \E u \in Concurrent : ShardStored(u)
  \/ \E u \in Concurrent : SendFinalize(u)
  \/ \E u \in Concurrent, code \in Codes : FinalizeGenCode(u, code)
  \/ \E u \in Concurrent : FinalizeCreate(u)
  \/ \E u \in Concurrent, f \in TwoShardFiles, p \in UploadPasswords,
        salt \in OneRandomSalt, iv \in OneRandomIV :
       PostUpload(u, f, p, salt, iv)
  \/ \E u \in Concurrent : CloudUploaded(u)
  \/ \E u \in Concurrent, code \in Codes : GenerateCode(u, code)
  \/ \E u \in Concurrent : SaveFile(u)
  \/ Tick
  \/ \E s \in Sweepers, job \in Jobs(client), key \in Keys, found \in BOOLEAN :
       Cleanup(s, job, key, found)
  \/ \E s \in Sweepers, deleted \in BOOLEAN : DestroyShards(s, deleted)
  \/ \E s \in Sweepers, deleted \in BOOLEAN : DeleteRecord(s, deleted)

\* uploads, the passing of time and the cleanup of expired files
SpecSweep == Init /\ [][NextSweep]_vars

\* the requests in flight are answered or not: the service with every
\* answer it can get, for one upload and one retrieval
NextLive ==
  \/ \E u \in Uploaders, f \in TwoShardFiles \cup {NoFile}, p \in UploadPasswords :
       Submit(u, f, p)
  \/ \E u \in Uploaders, salt \in OneSalt : Signed(u, salt)
  \/ \E u \in Uploaders : SignFailed(u)
  \/ \E u \in Uploaders, iv \in OneIV : EncryptNextShard(u, iv)
  \/ \E u \in Uploaders : ShardStored(u)
  \/ \E u \in Uploaders : ShardAckWithoutUrl(u)
  \/ \E u \in Uploaders, kind \in {"status", "network"} : ShardRejected(u, kind)
  \/ \E u \in Uploaders : SendFinalize(u)
  \/ \E u \in Uploaders, code \in Codes : FinalizeGenCode(u, code)
  \/ \E u \in Uploaders : FinalizeCreate(u)
  \/ \E u \in Uploaders, answered \in BOOLEAN : FinalizeFailed(u, answered)
  \/ \E r \in Retrievers, code \in Codes, p \in RetrievePasswords :
       RetrieveSubmit(r, code, p)
  \/ \E r \in Retrievers : MetaAnswered(r)
  \/ \E r \in Retrievers, answered \in BOOLEAN : MetaFailed(r, answered)
  \/ \E r \in Retrievers,
        answer \in FetchAnswers(0) \cup UNION { FetchAnswers(k) : k \in 1..Len(cloud) } :
       FetchShard(r, answer)
  \/ \E u \in Uploaders, f \in TwoShardFiles \cup {NoFile}, p \in UploadPasswords,
        salt \in OneRandomSalt, iv \in OneRandomIV :
       PostUpload(u, f, p, salt, iv)
  \/ \E u \in Uploaders : CloudUploaded(u)
  \/ \E u \in Uploaders : CloudRejected(u)
  \/ \E u \in Uploaders, code \in Codes : GenerateCode(u, code)
  \/ \E u \in Uploaders : SaveFile(u)
  \/ \E u \in Uploaders : SaveFailed(u)
  \/ \E r \in Retrievers, code \in Codes, p \in RetrievePasswords :
       PostRetrieve(r, code, p)
  \/ \E r \in Retrievers : Found(r)
  \/ \E r \in Retrievers : FindFailed(r)
  \/ \E r \in Retrievers,
        answer \in FetchAnswers(0) \cup UNION { FetchAnswers(k) : k \in 1..Len(cloud) } :
       \E exposed \in BOOLEAN : Downloaded(r, answer, exposed)

\* the steps the code takes by itself once it can: the browser's event loop
\* runs the client's continuations, Node's runs the server's handlers and
\* the database answers them
CodeRuns ==
  /\ \A u \in Uploaders :
       /\ WF_vars(\E iv \in OneIV : EncryptNextShard(u, iv))
       /\ WF_vars(SendFinalize(u))
       /\ WF_vars(\E code \in Codes : FinalizeGenCode(u, code))
       /\ WF_vars(FinalizeCreate(u))
       /\ WF_vars(\E code \in Codes : GenerateCode(u, code))
       /\ WF_vars(SaveFile(u))
  /\ \A r \in Retrievers :
       /\ WF_vars(MetaAnswered(r))
       /\ WF_vars(Found(r))

\* every request to the signing endpoint, the storage and the CDN gets some
\* answer
RequestsAnswered ==
  /\ \A u \in Uploaders :
       /\ WF_vars((\E salt \in OneSalt : Signed(u, salt)) \/ SignFailed(u))
       /\ WF_vars(ShardStored(u) \/ ShardAckWithoutUrl(u)
                    \/ \E kind \in {"status", "network"} : ShardRejected(u, kind))
       /\ WF_vars(CloudUploaded(u) \/ CloudRejected(u))
  /\ \A r \in Retrievers :
       /\ WF_vars(\E answer \in FetchAnswers(0)
                       \cup UNION { FetchAnswers(k) : k \in 1..Len(cloud) } :
                    FetchShard(r, answer))
       /\ WF_vars(\E answer \in FetchAnswers(0)
                       \cup UNION { FetchAnswers(k) : k \in 1..Len(cloud) } :
                    \E exposed \in BOOLEAN : Downloaded(r, answer, exposed))

\* the code runs; a request to the storage or the CDN may stay without an
\* answer
SpecLive == Init /\ [][NextLive]_vars /\ CodeRuns

\* the code runs and every request is answered
SpecAnswered == Init /\ [][NextLive]_vars /\ CodeRuns /\ RequestsAnswered

\* a file of two shards under each of the names
NamedFiles ==
  { [name |-> n, type |-> "text/plain", data |-> f.data] :
      n \in Names, f \in TwoShardFiles }

NextNames ==
  \/ \E u \in Uploaders, f \in NamedFiles, p \in UploadPasswords :
       Submit(u, f, p)
  \/ \E u \in Uploaders, salt \in Salts : Signed(u, salt)
  \/ \E u \in Uploaders, iv \in IVs : EncryptNextShard(u, iv)
  \/ \E u \in Uploaders : ShardStored(u)
  \/ \E u \in Uploaders : SendFinalize(u)
  \/ \E u \in Uploaders, code \in Codes : FinalizeGenCode(u, code)
  \/ \E u \in Uploaders : FinalizeCreate(u)
  \/ \E r \in Retrievers, code \in Codes, p \in RetrievePasswords :
       RetrieveSubmit(r, code, p)
  \/ \E r \in Retrievers : MetaAnswered(r)
  \/ \E r \in Retrievers, answer \in UNION { FetchAnswers(k) : k \in 1..Len(cloud) } :
       FetchShard(r, answer)
  \/ \E u \in Uploaders, f \in NamedFiles, p \in UploadPasswords,
        salt \in RandomSalts, iv \in RandomIVs :
       PostUpload(u, f, p, salt, iv)
  \/ \E u \in Uploaders : CloudUploaded(u)
  \/ \E u \in Uploaders, code \in Codes : GenerateCode(u, code)
  \/ \E u \in Uploaders : SaveFile(u)
  \/ \E r \in Retrievers, code \in Codes, p \in RetrievePasswords :
       PostRetrieve(r, code, p)
  \/ \E r \in Retrievers : Found(r)
  \/ \E r \in Retrievers, answer \in UNION { FetchAnswers(k) : k \in 1..Len(cloud) } :
       \E exposed \in BOOLEAN : Downloaded(r, answer, exposed)

\* uploads and retrievals of files under each of the names
SpecNames == Init /\ [][NextNames]_vars

(***************************************************************************)
(* Properties                                                              *)
(***************************************************************************)
\* the least n with n * d >= len
Ceil(len, d) == CHOOSE n \in 0..len : n * d >= len /\ (n = 0 \/ (n - 1) * d < len)

\* the record a finished upload wrote
Manifest(u) == CHOOSE f \in files : f.code = up[u].generatedCode

\* the locators of a manifest are locators the storage handed out
AllStored(parts) == \A i \in 1..Len(parts) : parts[i] \in 1..Len(cloud)

\* fetch every locator of parts under no failure and decrypt it under the key
\* of (password, stored salt)
DecryptAll(parts, password, salt) ==
  [i \in 1..Len(parts) |->
     DecryptShard(deriveKey(password, hexToBytes(salt)), cloud[parts[i]].bytes)]

\* C1: round trip.  A retrieval that saves a file under the code of a
\* finished upload saves exactly the uploaded bytes, and the shards of a
\* finished upload, decrypted in manifest order under the key of the upload
\* password and the stored salt and concatenated, are the uploaded bytes.
C1_RoundTrip ==
  \A u \in Uploaders :
    up[u].created =>
      /\ \A r \in Retrievers :
           (rt[r].download.clicked /\ rt[r].code = up[u].generatedCode)
             => /\ rt[r].password = up[u].password
                /\ rt[r].download.blob = up[u].file.data
      /\ AllStored(Manifest(u).parts) =>
           LET shards == DecryptAll(Manifest(u).parts, up[u].password,
                                    Manifest(u).salt)
           IN /\ \A i \in 1..Len(shards) : shards[i].ok
              /\ BlobOf([i \in 1..Len(shards) |-> shards[i].plain])
                   = up[u].file.data

\* a retrieval saved a file of more than one shard
C1_Witness ==
  \E r \in Retrievers :
    /\ rt[r].download.clicked
    /\ Len(rt[r].download.blob) > SHARD_SIZE
    /\ Len(rt[r].metaData.parts) > 1

\* C2: splitting policy.  The slices taken so far start at 0, follow one
\* another without gap or overlap, are never empty and never longer than
\* SHARD_SIZE; a slice that does not end the file has exactly SHARD_SIZE
\* bytes; when the loop is over there are ceil(L / SHARD_SIZE) slices and the
\* last one ends at L.
C2_Splitting ==
  \A u \in Uploaders :
    LET sl == up[u].slices
        L == Len(up[u].file.data)
    IN /\ \A k \in 1..Len(sl) :
            /\ sl[k].start = IF k = 1 THEN 0 ELSE sl[k - 1].end
            /\ sl[k].end - sl[k].start \in 1..SHARD_SIZE
            /\ sl[k].end <= L
            /\ sl[k].end < L => sl[k].end - sl[k].start = SHARD_SIZE
            /\ k < Len(sl) => sl[k].end - sl[k].start = SHARD_SIZE
       /\ Len(sl) <= Ceil(L, SHARD_SIZE)
       /\ up[u].finalizeSent =>
            /\ Len(sl) = Ceil(L, SHARD_SIZE)
            /\ Len(sl) = TotalShards(L)
            /\ L > 0 => sl[Len(sl)].end = L

\* the loop is over for a file whose length is a multiple of the shard size
C2_Witness ==
  \E u \in Uploaders :
    /\ up[u].finalizeSent
    /\ Len(up[u].slices) >= 2
    /\ Len(up[u].file.data) = Len(up[u].slices) * SHARD_SIZE

\* C3: locator order.  Entry i of uploadedUrls, and of the parts list sent
\* to finalize-upload, is the locator the storage returned for shard i of
\* this upload; the record holds the list as sent, retrieve-meta returns it
\* as held, and the retrieval fetches its entries from the first on, one by
\* one, decrypting part k before fetching part k + 1.
C3_LocatorOrder ==
  /\ \A u \in Uploaders :
       /\ \A i \in 1..Len(up[u].uploadedUrls) :
            LET url == up[u].uploadedUrls[i]
            IN url # Undefined =>
                 /\ url \in 1..Len(cloud)
                 /\ cloud[url].by = u
                 /\ cloud[url].shard = i
       /\ up[u].finalizeSent => up[u].body.parts = up[u].uploadedUrls
       /\ up[u].created => Manifest(u).parts = up[u].body.parts
  /\ \A r \in Retrievers :
       /\ rt[r].metaData.success =>
            \E u \in Uploaders :
              /\ up[u].created
              /\ up[u].generatedCode = rt[r].code
              /\ rt[r].metaData.parts = up[u].body.parts
       /\ Len(rt[r].fetched) <= Len(rt[r].metaData.parts)
       /\ rt[r].fetched = SubSeq(rt[r].metaData.parts, 1, Len(rt[r].fetched))
       /\ Len(rt[r].decryptedShards) = rt[r].i
       /\ Len(rt[r].fetched) \in {rt[r].i, rt[r].i + 1}

\* a retrieval fetched and decrypted the shards of a multi-shard manifest
C3_Witness ==
  \E r \in Retrievers :
    /\ rt[r].pc = "done"
    /\ Len(rt[r].fetched) >= 2
    /\ rt[r].fetched[1] # rt[r].fetched[2]

\* C4: no partial manifest.  When the finalize-upload request is issued,
\* every shard 1..n, n = ceil(L / SHARD_SIZE), was sliced and its upload
\* answered with success, none failed, and the parts list has n entries; an
\* upload one of whose shards failed for good has issued no finalize-upload
\* request and created no record; every record comes from a finalize-upload
\* request.
C4_NoPartialManifest ==
  /\ \A u \in Uploaders :
       LET n == Ceil(Len(up[u].file.data), SHARD_SIZE)
       IN /\ up[u].finalizeSent =>
               /\ up[u].acked = n
               /\ Len(up[u].slices) = n
               /\ Len(up[u].body.parts) = n
               /\ up[u].failedShard = NoShard
          /\ up[u].failedShard # NoShard =>
               /\ up[u].pc = "failed"
               /\ ~ up[u].finalizeSent
               /\ ~ up[u].created
               /\ up[u].generatedCode = NoCode
          /\ up[u].created => up[u].finalizeSent
  /\ client \in ShardedClients =>
       \A f \in files :
         \E u \in Uploaders : up[u].created /\ up[u].generatedCode = f.code

\* an upload was aborted after at least one of its shards had been stored
C4_Witness ==
  \E u \in Uploaders :
    /\ up[u].failedShard > 1
    /\ Len(up[u].uploadedUrls) >= 1
    /\ files = {}

\* C5: every persisted manifest has a non-empty list of shard locators.
C5_NonEmptyParts ==
  client \in ShardedClients => \A f \in files : Len(f.parts) >= 1

\* C6: every locator of a persisted manifest is the locator of a shard the
\* storage acknowledged (2xx with a secure_url) before the record was
\* written, and the record is written by the last step of its upload.
C6_LocatorsAcknowledged ==
  /\ client \in ShardedClients =>
       \A f \in files : \A i \in 1..Len(f.parts) : f.parts[i] \in 1..Len(cloud)
  /\ \A u \in Uploaders : up[u].created => up[u].pc = "done"

\* C7 as claimed: no shard is attempted more than 3 times.
C7_AtMost3Attempts == \A u \in Uploaders : up[u].attempts <= 3

\* what C7_BoundedRetry says of one state
BoundedRetry ==
  \A u \in Uploaders :
    /\ up[u].attempts <= RETRIES + 1
    /\ client = "part_002" =>
         /\ up[u].pc = "upload" => up[u].attempts + up[u].retries = RETRIES + 1
         /\ up[u].failedShard # NoShard =>
              /\ up[u].attempts = RETRIES + 1
              /\ up[u].retries = 0
              /\ up[u].toast.text = "Error: " \o up[u].lastError

\* C7, amended: uploadShardWithRetry makes one attempt and, after every
\* failed attempt, one more while retries (3) are left: at most 4 attempts
\* for one shard.  It gives up only after the 4th failure, rejects with the
\* error of that attempt, and the upload then takes no further step.
C7_BoundedRetry ==
  [][ /\ BoundedRetry'
      /\ \A u \in Uploaders : up[u].pc = "failed" => up'[u] = up[u] ]_vars

\* uploadShardWithRetry gave up on a shard
C7_Witness ==
  \E u \in Uploaders :
    /\ client = "part_002"
    /\ up[u].failedShard # NoShard
    /\ up[u].attempts = RETRIES + 1

\* C8: the error shown for a shard upload that failed for good names the
\* shard.
C8_ErrorNamesShard ==
  \A u \in Uploaders :
    up[u].failedShard # NoShard => up[u].toast.shard = up[u].failedShard

\* C9: wrong password gate.  A retrieval whose password is not the one the
\* found record's hash was made from is answered 401 without the locators,
\* and it fetches nothing, decrypts nothing and saves nothing; in server.js
\* the request is answered 401 without a body, and the server has fetched
\* no blob and called no decrypt for it.
C9_PasswordGate ==
  \A r \in Retrievers :
    /\ (rt[r].found # <<>> /\ rt[r].found[1] # BcryptHash(rt[r].password)) =>
         /\ rt[r].pc = "failed"
         /\ rt[r].metaData.status = 401
         /\ ~ rt[r].metaData.success
         /\ rt[r].metaData.parts = <<>>
         /\ rt[r].fetched = <<>>
         /\ rt[r].decrypts = 0
         /\ ~ rt[r].download.clicked
    /\ (/\ retrieve[r].found # <<>>
        /\ retrieve[r].found[1] # BcryptHash(retrieve[r].password)) =>
         /\ retrieve[r].pc = "failed"
         /\ retrieve[r].res.status = 401
         /\ retrieve[r].res.body = <<>>
         /\ retrieve[r].cloudinaryUrl = Undefined
         /\ retrieve[r].fetches = 0
         /\ retrieve[r].decrypts = 0

\* a retrieval gave a wrong password for a manifest that has shards
C9_Witness ==
  \E r \in Retrievers :
    /\ rt[r].found # <<>>
    /\ rt[r].found[1] # BcryptHash(rt[r].password)
    /\ \E f \in files : f.code = rt[r].code /\ Len(f.parts) >= 1

\* C10: retrieval is all or nothing.  A file is saved only when every part
\* of the manifest was fetched and decrypted, and it is the concatenation of
\* all of them; a failed retrieval saved nothing and fetched no part beyond
\* the one it failed on.
C10_AllOrNothing ==
  \A r \in Retrievers :
    LET n == Len(rt[r].metaData.parts)
    IN /\ rt[r].download.clicked =>
            /\ rt[r].pc = "done"
            /\ rt[r].metaData.success
            /\ Len(rt[r].fetched) = n
            /\ rt[r].decrypts = n
            /\ Len(rt[r].decryptedShards) = n
            /\ rt[r].download.blob = BlobOf(rt[r].decryptedShards)
       /\ rt[r].pc = "failed" =>
            /\ ~ rt[r].download.clicked
            /\ rt[r].metaData.success =>
                 /\ Len(rt[r].fetched) = Len(rt[r].decryptedShards) + 1
                 /\ Len(rt[r].decryptedShards) < n
       /\ rt[r].pc = "done" <=> rt[r].download.clicked

\* a retrieval failed on a later part after it had decrypted an earlier one
C10_Witness ==
  \E r \in Retrievers :
    /\ rt[r].pc = "failed"
    /\ Len(rt[r].decryptedShards) >= 1
    /\ ~ rt[r].download.clicked

\* C11: a lookup whose code matches no record, or a record whose expiresAt
\* is earlier than the time of the lookup, is answered 404 and delivers
\* nothing, swept or not.
C11_ExpiredNotFound ==
  \A r \in Retrievers :
    /\ (/\ rt[r].metaData.status \in {200, 401, 404}
        /\ \/ rt[r].found = <<>>
           \/ rt[r].foundExpiresAt < rt[r].lookupAt) =>
         /\ rt[r].metaData.status = 404
         /\ rt[r].pc = "failed"
         /\ ~ rt[r].download.clicked
    /\ (retrieve[r].found # <<>>
          /\ retrieve[r].foundExpiresAt < retrieve[r].lookupAt) =>
         retrieve[r].res.status = 404
    /\ (retrieve[r].pc \in {"download", "done"}
          \/ retrieve[r].res.status \in {200, 401}) =>
         retrieve[r].found # <<>>

\* what a user learns from the message of a failed retrieval
CauseShown(text) ==
  IF text \in {"File not found or expired", "File not found"}
    THEN "not found"
  ELSE IF text \in {"Wrong password", "Incorrect password"}
    THEN "wrong password"
  ELSE IF text \in {"Wrong Password or Data Corrupt",
                    "Decryption failed. Wrong password?",
                    "Shard download failed", "Download failed",
                    "Shard is empty", "Failed to fetch", "Retrieval failed"}
    THEN "shard"
  ELSE "other"

\* C12: a retrieval that fails for an unknown code, for a password that
\* fails the hash check, or for a shard that does not download or decrypt
\* shows an error message of its own kind: the message tells the three
\* causes apart (CauseShown is a function of the message alone).
C12_FailuresDistinguished ==
  \A r \in Retrievers :
    /\ (rt[r].found = <<>> /\ rt[r].metaData.status \in {200, 401, 404}) =>
         /\ rt[r].toast.type = "error"
         /\ CauseShown(rt[r].toast.text) = "not found"
    /\ (rt[r].found # <<>> /\ rt[r].found[1] # BcryptHash(rt[r].password)) =>
         /\ rt[r].toast.type = "error"
         /\ CauseShown(rt[r].toast.text) = "wrong password"
    /\ (rt[r].fetched # <<>> /\ rt[r].pc = "failed") =>
         /\ rt[r].toast.type = "error"
         /\ CauseShown(rt[r].toast.text) = "shard"
    /\ (retrieve[r].pc = "failed" /\ retrieve[r].found = <<>>
          /\ retrieve[r].res.status # 500) =>
         /\ retrieve[r].res.status = 404
         /\ CauseShown(retrieve[r].res.message) = "not found"
    /\ (retrieve[r].found # <<>>
          /\ retrieve[r].found[1] # BcryptHash(retrieve[r].password)) =>
         /\ retrieve[r].res.status = 401
         /\ CauseShown(retrieve[r].res.message) = "wrong password"
    /\ (retrieve[r].fetches > 0 /\ retrieve[r].pc = "failed") =>
         /\ retrieve[r].res.status = 500
         /\ CauseShown(retrieve[r].res.message) = "shard"

\* a retrieval passed the password check and then failed on its second shard
C12_Witness ==
  \E r \in Retrievers :
    /\ rt[r].pc = "failed"
    /\ Len(rt[r].fetched) = 2
    /\ CauseShown(rt[r].toast.text) = "shard"

\* C13: every finalize-upload (or /upload) request that ran to its answer
\* has persisted a manifest, and no two persisted manifests share a code.
C13_DistinctCodesUnderLoad ==
  /\ \A u \in Concurrent :
       /\ (up[u].finalizeSent /\ up[u].pc \in {"done", "failed"}) => up[u].created
       /\ upload[u].pc \in {"done", "failed"} => upload[u].saved
  /\ \A f, g \in files : f.code = g.code => f = g
  /\ \A u, v \in Concurrent :
       /\ (up[u].created /\ up[v].created /\ u # v) =>
            up[u].generatedCode # up[v].generatedCode
       /\ (upload[u].saved /\ upload[v].saved /\ u # v) =>
            upload[u].res.code # upload[v].res.code

\* C14: no upload fails because the code it drew is taken: a request whose
\* insert met a record with the same code draws again and succeeds.
C14_CollisionRegenerates ==
  \A u \in Concurrent :
    /\ ~ up[u].duplicate
    /\ ~ upload[u].duplicate
    /\ up[u].pc = "failed" => ~ FileExists(up[u].code)

\* a string of six decimal digits that does not start with 0
SixDigits(code) ==
  /\ Len(code) = 6
  /\ \A i \in 1..6 : code[i] \in 0..9
  /\ code[1] >= 1

\* C15: every code of a persisted manifest, and every code answered to or
\* shown by an upload, is the decimal form of an integer in 100000..999999.
C15_SixDigitCode ==
  /\ \A f \in files : SixDigits(f.code)
  /\ \A u \in Concurrent :
       /\ up[u].code # NoCode => SixDigits(up[u].code)
       /\ up[u].generatedCode # NoCode => SixDigits(up[u].generatedCode)
       /\ upload[u].code # NoCode => SixDigits(upload[u].code)
       /\ upload[u].res.code # NoCode => SixDigits(upload[u].res.code)

\* a manifest carries the code drawn from the greatest value of Math.random()
C15_Witness ==
  \E f \in files : f.code = generateCode(RAND_DEN - 1) /\ f.code[1] = 9

\* C16: validation precedes I/O.  An upload submitted without a file, or
\* with a password of fewer than 6 characters, shows an error and has sent
\* no request: no signature request, no shard upload, no finalize-upload;
\* nothing of it is in the storage or in the database.
C16_ValidationBeforeNetwork ==
  \A u \in Concurrent :
    (/\ up[u].pc # "idle"
     /\ \/ up[u].file = NoFile
        \/ Len(up[u].password) < MIN_PASSWORD_LEN) =>
      /\ up[u].pc = "rejected"
      /\ up[u].toast.type = "error"
      /\ ~ up[u].signSent
      /\ up[u].fileSalt = <<>>
      /\ up[u].slices = <<>>
      /\ up[u].attempts = 0
      /\ up[u].acked = 0
      /\ ~ up[u].finalizeSent
      /\ ~ up[u].created
      /\ \A k \in 1..Len(cloud) : cloud[k].by # u

\* an upload with a file selected was refused for its short password
C16_Witness ==
  \E u \in Concurrent :
    /\ up[u].pc = "rejected"
    /\ up[u].file # NoFile
    /\ Len(up[u].password) < MIN_PASSWORD_LEN
    /\ up[u].toast.text = "Password must be 6+ chars."

\* C17: a code is shown to the uploader only when the record carrying it has
\* been written: whenever generatedCode is set, File.create of this upload
\* has completed and the database holds the record with that code and the
\* body that was sent; an upload whose finalize did not report success shows
\* no code.  In server.js a code is answered only after newFile.save().
C17_CodeAfterManifest ==
  \A u \in Concurrent :
    /\ up[u].generatedCode # NoCode =>
         /\ up[u].created
         /\ up[u].pc = "done"
         /\ up[u].generatedCode = up[u].code
         /\ NewFile(up[u].code, up[u].body) \in
              { [f EXCEPT !.expiresAt = now + TTL_DAYS] : f \in files }
    /\ up[u].pc # "done" => up[u].generatedCode = NoCode
    /\ upload[u].res.code # NoCode =>
         /\ upload[u].saved
         /\ upload[u].res.success
         /\ \E f \in files :
              f.code = upload[u].res.code /\ f.cloudinaryUrl = upload[u].result

\* an upload of several shards shows its code
C17_Witness ==
  \E u \in Concurrent :
    /\ up[u].generatedCode # NoCode
    /\ Len(up[u].body.parts) >= 2
    /\ \E f \in files : f.code = up[u].generatedCode

\* the phase of the transfer an upload handler is in
Phase(st) ==
  CASE st.pc = "idle" -> "Idle"
    [] st.pc = "sign" -> "Deriving"
    [] st.pc \in {"loop", "upload"} -> "UploadingShards"
    [] st.pc \in {"finalize", "create"} -> "Finalizing"
    [] st.pc = "done" -> "Done"
    [] st.pc \in {"failed", "rejected"} -> "Failed"

\* one step of an upload handler, from st to nx, follows the state machine
Transition(st, nx) ==
  LET n == TotalShards(Len(st.file.data))
  IN \/ nx = st
     \/ /\ Phase(st) = "Idle"
        /\ Phase(nx) \in {"Deriving", "Failed"}
     \/ /\ Phase(st) = "Deriving"
        /\ \/ Phase(nx) = "Failed"
           \/ Phase(nx) = "UploadingShards" /\ nx.currentShard = 0
     \/ /\ Phase(st) = "UploadingShards"
        /\ \/ Phase(nx) = "Failed"
           \* the next shard is started when the one before it was acknowledged
           \/ /\ st.pc = "loop" /\ nx.pc = "upload"
              /\ nx.currentShard = st.currentShard + 1
              /\ nx.currentShard <= n
              /\ st.acked = st.currentShard
           \* another attempt for the same shard
           \/ /\ st.pc = "upload" /\ nx.pc = "upload"
              /\ nx.currentShard = st.currentShard
              /\ nx.acked = st.acked
           \* the shard was acknowledged
           \/ /\ st.pc = "upload" /\ nx.pc = "loop"
              /\ nx.currentShard = st.currentShard
              /\ nx.acked = st.acked + 1
              /\ Len(nx.uploadedUrls) = Len(st.uploadedUrls) + 1
           \* all shards are uploaded
           \/ /\ st.pc = "loop" /\ Phase(nx) = "Finalizing"
              /\ st.currentShard = n
              /\ st.acked = n
     \/ /\ Phase(st) = "Finalizing"
        /\ Phase(nx) \in {"Finalizing", "Done", "Failed"}
        /\ nx.uploadedUrls = st.uploadedUrls
        /\ nx.acked = st.acked

\* C18: every step of an upload handler moves along
\* Idle -> Deriving -> UploadingShards(1..n) -> Finalizing -> Done, or to
\* Failed; an upload that is Done or Failed takes no further step, so it
\* sends no further shard upload and no finalize-upload request.
C18_StateMachine ==
  [][ \A u \in Concurrent :
        /\ Transition(up[u], up'[u])
        /\ Phase(up[u]) \in {"Done", "Failed"} =>
             /\ up'[u] = up[u]
             /\ \A k \in 1..Len(cloud') : cloud'[k].by = u => k <= Len(cloud) ]_vars

\* an upload failed while finalizing, after all of its shards were uploaded
C18_Witness ==
  \E u \in Concurrent :
    /\ up[u].pc = "failed"
    /\ up[u].finalizeSent
    /\ up[u].acked >= 2

\* C19: tamper detection.  A retrieval that passed the password check and
\* fetched a shard one byte of which (nonce, ciphertext or tag) differs from
\* the stored bytes fails on that shard with the client's decryption error
\* and saves no file.
C19_TamperDetected ==
  \A r \in Retrievers :
    rt[r].tampered =>
      /\ rt[r].pc = "failed"
      /\ rt[r].toast = Toast("error", DecryptErrorText(client), NoShard)
      /\ ~ rt[r].download.clicked
      /\ rt[r].download.blob = <<>>
      /\ Len(rt[r].decryptedShards) = Len(rt[r].fetched) - 1

\* a retrieval with the right password met a changed second shard
C19_Witness ==
  \E r \in Retrievers :
    /\ rt[r].tampered
    /\ rt[r].found = <<BcryptHash(rt[r].password)>>
    /\ Len(rt[r].fetched) = 2

\* the locator list with entries i and j exchanged
Swapped(parts, i, j) ==
  [k \in 1..Len(parts) |->
     IF k = i THEN parts[j] ELSE IF k = j THEN parts[i] ELSE parts[k]]

\* C20: order sensitivity.  For the manifest of a finished upload of two or
\* more shards, a retrieval over the locator list with two entries
\* exchanged (right password, every fetch answered with the stored bytes)
\* either fails to decrypt a shard or assembles bytes that differ from the
\* uploaded file.
C20_OrderSensitive ==
  \A u \in Concurrent :
    (up[u].created /\ AllStored(Manifest(u).parts)) =>
      \A i, j \in 1..Len(Manifest(u).parts) :
        i < j =>
          LET shards == DecryptAll(Swapped(Manifest(u).parts, i, j),
                                   up[u].password, Manifest(u).salt)
          IN \/ \E k \in 1..Len(shards) : ~ shards[k].ok
             \/ BlobOf([k \in 1..Len(shards) |-> shards[k].plain])
                  # up[u].file.data

\* the sweep of s ran through its whole list and no deletion threw
Completed(s) ==
  /\ sweep[s].pc = "done"
  /\ sweep[s].expiredFiles # <<>>
  /\ sweep[s].threw = {}

\* the locators a record lists
Locators(file) ==
  IF "parts" \in DOMAIN file
    THEN { file.parts[i] : i \in 1..Len(file.parts) }
    ELSE { file.cloudinaryUrl }

\* C21: expiry.  When a run of the cleanup code found its expired records
\* (expiresAt earlier than the time of the run) and went through its list
\* without a failed deletion, none of these records is in the File
\* collection any more and none of the blobs their locators name is still in
\* the storage.
C21_SweepRemovesExpired ==
  \A s \in Sweepers :
    Completed(s) =>
      \A i \in 1..Len(sweep[s].expiredFiles) :
        LET file == sweep[s].expiredFiles[i] IN
        /\ file \notin files
        /\ \A url \in Locators(file) :
             url \in 1..Len(cloud) => ~ cloud[url].present

\* C22: sweep failure isolation.  A run of the cleanup code in which the
\* deletion of the blobs or of the record of one expired file threw has,
\* when it ends, started the deletion of every expired record it found.
C22_SweepFailureIsolated ==
  \A s \in Sweepers :
    (sweep[s].pc \in {"done", "failed"} /\ sweep[s].threw # {}) =>
      sweep[s].tried = 1..Len(sweep[s].expiredFiles)

\* the records a run has deleted or found deleted, and the public ids it has
\* asked the storage to delete
Swept(s) ==
  { sweep[s].expiredFiles[i] :
      i \in { j \in sweep[s].tried :
                j < sweep[s].i \/ sweep[s].pc \in {"done", "failed"} }
            \ sweep[s].threw }

SweptIds(s) ==
  UNION { PublicIds(sweep[s].job, sweep[s].expiredFiles[i]) :
            i \in sweep[s].tried }

\* C23: the cleanup is idempotent and safe to run concurrently with itself.
\* A run throws at a record only when the storage or the database refused
\* the deletion, never because the blob or the record was gone already; a
\* record a run has got past without a throw is out of the collection,
\* however many runs went over it; and the blobs missing from the storage
\* are blobs that some run asked to delete, so that two runs over the same
\* list leave what one of them leaves.
C23_SweepIdempotent ==
  /\ \A s \in Sweepers : sweep[s].threw \subseteq sweep[s].refused
  /\ \A s \in Sweepers : Swept(s) \cap files = {}
  /\ \A k \in 1..Len(cloud) :
       ~ cloud[k].present => \E s \in Sweepers : PublicId(k) \in SweptIds(s)
  /\ \A s, t \in Sweepers :
       (s # t /\ Completed(s) /\ Completed(t)
          /\ sweep[s].expiredFiles = sweep[t].expiredFiles) =>
         \A k \in 1..Len(cloud) :
           cloud[k].present <=> PublicId(k) \notin SweptIds(s)

\* two runs went over the same two expired records
C23_Witness ==
  \E s, t \in Sweepers :
    /\ s # t
    /\ Completed(s)
    /\ Completed(t)
    /\ sweep[s].expiredFiles = sweep[t].expiredFiles
    /\ Len(sweep[s].expiredFiles) = 2

\* C24: no File record holds the access password or the encryption key.
\* Every record has the fields of the schema and no other; its passwordHash
\* is the bcrypt hash of the password, not the password and not the derived
\* key; its salt is the hex form of a 16-byte salt; and none of its text
\* fields is a password.
C24_NoSecretPersisted ==
  \A f \in files :
    /\ DOMAIN f.passwordHash = {"bcrypt"}
    /\ "parts" \in DOMAIN f =>
         /\ DOMAIN f = {"code", "passwordHash", "parts", "originalName",
                        "mimeType", "salt", "iv", "expiresAt"}
         /\ {f.mimeType, f.iv} \cap Passwords = {}
         /\ \E salt \in Salts : f.salt = bytesToHex(salt)
         /\ \A p \in Passwords, salt \in Salts :
              f.passwordHash # deriveKey(p, salt)
    /\ "parts" \notin DOMAIN f =>
         /\ DOMAIN f = {"code", "passwordHash", "cloudinaryUrl",
                        "cloudinaryPublicId", "originalName", "expiresAt"}
         /\ \A p \in Passwords, salt \in RandomSalts :
              f.passwordHash # pbkdf2Sync(p, salt)

\* the manifest of a two-shard upload under password "correcthorse" is in
\* the collection
C24_Witness ==
  \E f \in files :
    /\ "parts" \in DOMAIN f
    /\ Len(f.parts) = 2
    /\ f.passwordHash = BcryptHash("correcthorse")

\* C25: a shard fetch answered with a zero-length or undersized body is a
\* fetch failure.  When the body of the last fetch was shorter than nonce
\* and tag, the retrieval has failed, nothing was saved, decrypt was not
\* called on that body, and the message shown is not the one of a failed
\* decryption.
C25_UndersizedIsFetchFailure ==
  \A r \in Retrievers :
    rt[r].undersized =>
      /\ rt[r].pc = "failed"
      /\ ~ rt[r].download.clicked
      /\ rt[r].decrypts = rt[r].i
      /\ rt[r].toast.text \notin { DecryptErrorText(c) : c \in ShardedClients }

\* the half of C25 the clients keep: no undersized body is ever decrypted
\* into a delivered file
C25_UndersizedNeverDelivered ==
  \A r \in Retrievers :
    rt[r].undersized => rt[r].pc = "failed" /\ ~ rt[r].download.clicked

\* an upload or a retrieval has ended: Done, or Failed with a message
Ended(pc) == pc \in {"done", "failed", "rejected"}

\* C26: every transfer ends.  An upload or a retrieval that has started
\* reaches Done or Failed, whether or not its requests are answered.
C26_TransferEnds ==
  /\ \A u \in Uploaders :
       (up[u].pc # "idle") ~> Ended(up[u].pc)
  /\ \A r \in Retrievers :
       (rt[r].pc # "idle") ~> Ended(rt[r].pc)
  /\ \A u \in Uploaders :
       (upload[u].pc # "idle") ~> Ended(upload[u].pc)
  /\ \A r \in Retrievers :
       (retrieve[r].pc # "idle") ~> Ended(retrieve[r].pc)

\* C28: file name pass-through.  A retrieval that ends with a saved file
\* saves it under the name the file had at upload, character by character.
C28_NamePassThrough ==
  /\ \A r \in Retrievers, u \in Uploaders :
       (rt[r].pc = "done" /\ up[u].created /\ rt[r].code = up[u].code) =>
         rt[r].download.name = up[u].file.name
  /\ \A r \in Retrievers, u \in Uploaders :
       (retrieve[r].pc = "done" /\ upload[u].pc = "done"
          /\ retrieve[r].code = upload[u].code) =>
         retrieve[r].saved = upload[u].file.name

\* the blob stored under url is named by a record of the collection
Referenced(url) == \E f \in files : url \in Locators(f)

\* C27: compensating delete.  When an upload has ended Failed, every blob
\* it stored is either gone from the storage or named by a manifest.
C27_CompensatingDelete ==
  /\ \A u \in Uploaders :
       up[u].pc = "failed" =>
         \A k \in 1..Len(cloud) :
           (cloud[k].by = u /\ cloud[k].shard # NoShard /\ cloud[k].present)
             => Referenced(k)
  /\ \A u \in Uploaders :
       upload[u].pc = "failed" =>
         \A k \in 1..Len(cloud) :
           (cloud[k].by = u /\ cloud[k].shard = NoShard /\ cloud[k].present)
             => Referenced(k)

\* C29: the shards of one transfer are processed one after the other.  At
\* most one shard that was encrypted is not yet acknowledged, it is the one
\* whose upload is in flight, and the storage holds no blob of a later
\* shard; the encryption of a shard begins only when every shard before it
\* was acknowledged.
C29_ShardsSequential ==
  \A u \in Uploaders :
    /\ Len(up[u].slices) = up[u].currentShard
    /\ up[u].currentShard - up[u].acked \in {0, 1}
    /\ up[u].pc = "upload" => up[u].acked = up[u].currentShard - 1
    /\ up[u].pc = "loop" => up[u].acked = up[u].currentShard
    /\ \A k \in 1..Len(cloud) :
         (cloud[k].by = u /\ cloud[k].shard # NoShard) =>
           cloud[k].shard <= up[u].acked + 1

\* the second of three shards is in flight after a retry, the first is
\* acknowledged
C29_Witness ==
  \E u \in Uploaders :
    /\ up[u].pc = "upload"
    /\ TotalShards(Len(up[u].file.data)) = 3
    /\ up[u].currentShard = 2
    /\ up[u].acked = 1
    /\ up[u].attempts = 2

\* the key under which a stored shard was encrypted
KeyOf(blob) == blob.bytes[Len(blob.bytes)].k

\* C30: transfers are isolated.  While two invocations of the upload
\* handler interleave, the locator list of each holds the locators of its
\* own shards only, in shard order; each of its shards is encrypted under
\* the key derived from its own password and its own salt; and the body it
\* sends to finalize-upload carries its own salt and exactly the locators
\* of its own shards.
C30_TransfersIsolated ==
  \A u \in Concurrent :
    /\ \A i \in 1..Len(up[u].uploadedUrls) :
         LET url == up[u].uploadedUrls[i] IN
         /\ url \in 1..Len(cloud)
         /\ cloud[url].by = u
         /\ cloud[url].shard = i
    /\ \A k \in 1..Len(cloud) :
         (cloud[k].by = u /\ cloud[k].shard # NoShard) =>
           KeyOf(cloud[k]) = deriveKey(up[u].password, up[u].fileSalt)
    /\ up[u].finalizeSent =>
         /\ up[u].body.salt = bytesToHex(up[u].fileSalt)
         /\ Len(up[u].body.parts) = TotalShards(Len(up[u].file.data))
         /\ \A i \in 1..Len(up[u].body.parts) :
              /\ cloud[up[u].body.parts[i]].by = u
              /\ cloud[up[u].body.parts[i]].shard = i

\* two uploads with different salts have sent their finalize requests
\* after their shard uploads alternated
C30_Witness ==
  /\ client \in ShardedClients
  /\ \A u \in Concurrent : up[u].finalizeSent
  /\ up["u1"].fileSalt # up["u2"].fileSalt
  /\ up["u1"].body.parts = <<1, 3>>
  /\ up["u2"].body.parts = <<2, 4>>

\* C31: in a cleanup run the record of an expired file is deleted only
\* after the storage deletion for its blobs completed without error.  The
\* records a run has deleted are records whose storage deletion it had
\* completed; and a record at which the storage deletion threw is still in
\* the collection unless another run, whose storage deletion completed,
\* deleted it.
C31_RecordAfterShards ==
  \A s \in Sweepers :
    /\ sweep[s].removed \subseteq sweep[s].requested
    /\ \A i \in sweep[s].threw \ sweep[s].requested :
         \/ sweep[s].expiredFiles[i] \in files
         \/ \E t \in Sweepers :
              \E j \in sweep[t].removed \cap sweep[t].requested :
                sweep[t].expiredFiles[j] = sweep[s].expiredFiles[i]

\* a run over two expired records has ended; the storage deletion threw at
\* the first, whose record is still there, and the second record is deleted
C31_Witness ==
  \E s \in Sweepers :
    /\ sweep[s].pc = "done"
    /\ Len(sweep[s].expiredFiles) = 2
    /\ 1 \in sweep[s].threw \ sweep[s].requested
    /\ sweep[s].expiredFiles[1] \in files
    /\ 2 \in sweep[s].removed

\* 16-byte salts that between them hold every byte value at every position
SampleSalts == { [i \in 1..SALT_LEN |-> (b + 17 * i) % 256] : b \in 0..255 }

\* the hex form of every sample salt has 32 digits and parses back to it
HexRoundTrip ==
  \A s \in SampleSalts \cup Salts :
    /\ Len(bytesToHex(s)) = 2 * SALT_LEN
    /\ hexToBytes(bytesToHex(s)) = s

\* C32: the key salt survives persistence.  hexToBytes(bytesToHex(s)) = s
\* for 16-byte salts s; the salt a stored manifest holds parses back to the
\* salt the upload drew; and a retrieval that was answered the manifest of
\* an upload and gave the upload's password derives the key the upload
\* used.
C32_SaltSurvives ==
  /\ HexRoundTrip
  /\ \A u \in Uploaders :
       up[u].created =>
         /\ hexToBytes(up[u].body.salt) = up[u].fileSalt
         /\ \A r \in Retrievers :
              (rt[r].metaData.success /\ rt[r].code = up[u].generatedCode
                 /\ rt[r].password = up[u].password) =>
                deriveKey(rt[r].password, hexToBytes(rt[r].metaData.salt))
                  = deriveKey(up[u].password, up[u].fileSalt)

\* a retrieval with the upload's password was answered a manifest whose
\* salt has bytes below 16, whose hex form needs the padding, and decrypted
\* a shard
C32_Witness ==
  \E u \in Uploaders, r \in Retrievers :
    /\ up[u].created
    /\ rt[r].metaData.success
    /\ rt[r].code = up[u].generatedCode
    /\ rt[r].password = up[u].password
    /\ \E i \in 1..SALT_LEN : up[u].fileSalt[i] < 16
    /\ Len(rt[r].decryptedShards) >= 1

\* the records the runs have deleted, and the number of records created
RemovedRecords ==
  UNION { { sweep[s].expiredFiles[i] : i \in sweep[s].removed } : s \in Sweepers }

CreatedCount ==
  Cardinality({ u \in Concurrent : up[u].created })
    + Cardinality({ u \in Concurrent : upload[u].pc = "done" })

\* C33: the cleanup deletes only expired records.  Every record a run works
\* on had its expiresAt earlier than the time at which the run found it; no
\* record is missing from the collection but those the runs deleted; and a
\* record that no run has found expired has every blob its locators name
\* still in the storage.
C33_OnlyExpiredDeleted ==
  /\ \A s \in Sweepers :
       \A i \in 1..Len(sweep[s].expiredFiles) :
         sweep[s].expiredFiles[i].expiresAt < sweep[s].at
  /\ Cardinality(files) + Cardinality(RemovedRecords) = CreatedCount
  /\ \A f \in files :
       (\A s \in Sweepers : \A i \in 1..Len(sweep[s].expiredFiles) :
          sweep[s].expiredFiles[i] # f) =>
         \A url \in Locators(f) :
           url \in 1..Len(cloud) => cloud[url].present

\* a run at day 3 has deleted the record that expired at day 2, and the
\* record that expires at day 3 is in the collection with its blobs
C33_Witness ==
  \E s \in Sweepers :
    /\ sweep[s].pc = "done"
    /\ sweep[s].at = 3
    /\ sweep[s].removed = {1}
    /\ sweep[s].expiredFiles[1].expiresAt = 2
    /\ \E f \in files :
         /\ f.expiresAt = 3
         /\ \A url \in Locators(f) : cloud[url].present

\* C34: a /cleanup request with a key that is not the configured one is
\* answered 403 and changes nothing: the request has ended with status 403,
\* it has run no query, asked the storage for no deletion and deleted no
\* record.
C34_WrongKeyRefused ==
  \A s \in Sweepers :
    (sweep[s].job = "/cleanup" /\ sweep[s].key # CLOUDINARY_API_KEY) =>
      /\ sweep[s].pc = "done"
      /\ sweep[s].res = [status |-> 403, body |-> "Unauthorized"]
      /\ sweep[s].expiredFiles = <<>>
      /\ sweep[s].tried = {}
      /\ sweep[s].requested = {}
      /\ sweep[s].removed = {}

\* a request with a wrong key was refused while an expired record and its
\* blobs were there to delete
C34_Witness ==
  \E s \in Sweepers :
    /\ sweep[s].job = "/cleanup"
    /\ sweep[s].key # CLOUDINARY_API_KEY
    /\ sweep[s].res.status = 403
    /\ \A t \in Sweepers \ {s} : sweep[t].pc = "idle"
    /\ \E f \in files :
         /\ f.expiresAt < now
         /\ \A url \in Locators(f) : cloud[url].present

\* C35: every shard upload request the client sends carries the folder
\* that POST /sign-upload included in the parameters it signed, and so does
\* every blob the storage keeps of such a request.
C35_FolderIsSigned ==
  /\ \A u \in Uploaders :
       (client \in ShardedClients /\ up[u].pc = "upload") =>
         UploadFolder(client) = SignedFolder
  /\ \A k \in 1..Len(cloud) :
       cloud[k].shard # NoShard => cloud[k].folder = SignedFolder

\* some code the generator can produce is in no record
SomeCodeFree == \E code \in Codes : ~ FileExists(code) /\ FindOne(code) = {}

\* C36: the code loop terminates.  Under a fair random choice of codes, a
\* handler that is in its generate-and-check loop while some code is in no
\* record eventually leaves the loop (or no code is free any more); and the
\* step that leaves the loop leaves it with a code that no record held when
\* the check was made.
C36_CodeLoopTerminates ==
  /\ \A u \in Concurrent :
       /\ (up[u].pc = "finalize" /\ SomeCodeFree)
            ~> (up[u].pc # "finalize" \/ ~ SomeCodeFree)
       /\ (upload[u].pc = "code" /\ SomeCodeFree)
            ~> (upload[u].pc # "code" \/ ~ SomeCodeFree)
  /\ [][\A u \in Concurrent :
          /\ (up[u].pc = "finalize" /\ up'[u].pc # "finalize") =>
               (up'[u].pc = "create" /\ ~ FileExists(up'[u].code))
          /\ (upload[u].pc = "code" /\ upload'[u].pc # "code") =>
               (upload'[u].pc = "save" /\ FindOne(upload'[u].code) = {})]_vars

\* a handler left its code loop after a round that drew a code in use,
\* with a code that is in no record, while the other code is in a record
C36_Witness ==
  \E u \in Concurrent :
    \/ /\ up[u].pc = "create" /\ up[u].collided
       /\ ~ FileExists(up[u].code)
       /\ \E f \in files : f.code # up[u].code
    \/ /\ upload[u].pc = "save" /\ upload[u].collided
       /\ FindOne(upload[u].code) = {}
       /\ \E f \in files : f.code # upload[u].code

\* C37: once the /upload handler of a disk-storage variant has answered
\* (200, 400 or 500), neither the temporary file multer wrote for the
\* request nor its renamed copy is on the local disk.
C37_TempFilesRemoved ==
  \A u \in Concurrent :
    upload[u].res.status \in {200, 400, 500} =>
      /\ OriginalPath(u) \notin disk
      /\ SafeBinPath(u) \notin disk

====
